---- MODULE Spec2Model ----
(***************************************************************************)
(* A model of cign ("Can I Go Now?"): the check result of a git directory, *)
(* the directory resolver, the top-level scan, the fix/retry loops, the    *)
(* custom check adapter, the refresh batch, the failing lists, check_repo, *)
(* the recursive repository discoverer and the add-custom / del-custom     *)
(* commands.                                                               *)
(***************************************************************************)
EXTENDS Integers, Sequences, FiniteSets, TLC

VARIABLES
    \* GitCheckResult under description (git.rs)
    chk, described, all_good, facts,
    \* get_expanded_dirs call (dir.rs)
    rin, rno_skip, rdone, rret,
    \* top-level scan (main.rs: main, visit_all_repos)
    sgit, sno_skip, sverbose, soutcome, spc, sexit, sout,
    \* fix/retry loops (command.rs: handle_fix, handle_fix_custom)
    cfg, cfg0, no_skip, cwd, cwd0, pc, handler, failing_expanded_dirs,
    failing_custom_entries, idx, dir, saved_cwd,
    command_result, verdict, run_log, answers, out, ret, initial_scan,
    \* one call of the custom check adapter (custom.rs: check, refresh)
    ce_entry, ce_cwd, ce_op, ce_status, ce_done, ce_ret, ce_cwd_after,
    \* refresh batch (command.rs: handle_refresh)
    hr_cfg, hr_no_skip, hr_repos, hr_cwd, hr_done, hr_ret, hr_refreshed,
    hr_out, hr_cwd_after,
    \* one computation of a failing list (dir.rs, main.rs)
    fl_input, fl_dirs, fl_entries, fl_no_skip, fl_world, fl_statuses, fl_fn,
    fl_ret,
    \* one evaluation of a repository (git.rs: check_repo)
    rp_repo, rp_done, rp_ret,
    \* recursive discovery (git.rs: find_git_repos_recursive)
    fd_tree, fd_outer, fd_pc, stack, found_repos, fd_examined, fd_read, fd_ret,
    \* add-custom and del-custom (command.rs) on the persisted configuration
    disk_custom, disk0, mem_custom, cc_op, cc_pc, cc_path, cc_name, cc_prompts,
    cc_ret,
    \* add and del (command.rs) on the persisted repository set
    disk_git, git0, mem_git, cc_dir, cc_answer, cc_saved, cc_no_skip

descVars == <<chk, described, all_good, facts>>
dirVars == <<rin, rno_skip, rdone, rret>>
scanVars == <<sgit, sno_skip, sverbose, soutcome, spc, sexit, sout>>
fixVars == <<cfg, cfg0, no_skip, cwd, cwd0, pc, handler, failing_expanded_dirs,
             failing_custom_entries, idx, dir, saved_cwd,
             command_result, verdict, run_log, answers, out, ret,
             initial_scan>>
customVars == <<ce_entry, ce_cwd, ce_op, ce_status, ce_done, ce_ret, ce_cwd_after>>
\* the variables of the parts that follow the fix/retry loops
refreshVars == <<hr_cfg, hr_no_skip, hr_repos, hr_cwd, hr_done, hr_ret,
                 hr_refreshed, hr_out, hr_cwd_after>>
failingVars == <<fl_input, fl_dirs, fl_entries, fl_no_skip, fl_world,
                 fl_statuses, fl_fn, fl_ret>>
repoVars == <<rp_repo, rp_done, rp_ret>>
findVars == <<fd_tree, fd_outer, fd_pc, stack, found_repos, fd_examined,
              fd_read, fd_ret>>
configVars == <<disk_custom, disk0, mem_custom, cc_op, cc_pc, cc_path, cc_name,
                cc_prompts, cc_ret, disk_git, git0, mem_git, cc_dir, cc_answer,
                cc_saved, cc_no_skip>>
auxVars == <<customVars, refreshVars, failingVars, repoVars, findVars,
             configVars>>
vars == <<descVars, dirVars, scanVars, fixVars, auxVars>>

----------------------------------------------------------------------------
(* Bounds *)

\* longest list of working-tree statuses in a check result
MaxStatuses == 2
\* largest ahead / behind commit count
MaxCommits == 2
\* longest list of paths handed to the directory resolver
MaxDirs == 3
\* most entries (repository and custom entries together) of a configuration
MaxEntries == 2
\* most paths of the directory tree the discoverer walks
MaxNodes == 7
\* most custom entries of the persisted configuration
MaxCustom == 3
\* most times the name prompt of add-custom is shown in one run
MaxPrompts == 2
\* most remediation attempts on one entry (the user stops accepting retries)
MaxAttempts == 2

----------------------------------------------------------------------------
(* git.rs: GitCheckResult *)

\* git2::RepositoryState, as printed by {:?}: the clean value and two of the
\* mid-operation values
RepositoryState == {"Clean", "Merge", "Rebase"}

\* git2::Status flags of a working-tree entry
Status == {"WT_NEW", "WT_MODIFIED"}

SeqsUpTo(S, n) == UNION {[1..k -> S] : k \in 0..n}

GitCheckResult ==
    [state : RepositoryState,
     statuses : SeqsUpTo(Status, MaxStatuses),
     commits_ahead : 0..MaxCommits,
     commits_behind : 0..MaxCommits]

is_all_good_no_behind(r) ==
    /\ r.state = "Clean"
    /\ r.statuses = <<>>
    /\ r.commits_ahead = 0

is_all_good(r) ==
    /\ r.state = "Clean"
    /\ r.statuses = <<>>
    /\ r.commits_ahead = 0
    /\ r.commits_behind = 0

\* describe with the ahead and behind facts pushed in the opposite order
describe_behind_first(r) ==
    IF is_all_good(r) THEN <<"all good">>
    ELSE LET r1 == IF r.state # "Clean"
                   THEN <<"unclean state " \o r.state>> ELSE <<>>
             change_count == Len(r.statuses)
             r2 == IF change_count > 0
                   THEN Append(r1, ToString(change_count) \o " uncommitted change(s)")
                   ELSE r1
             r3 == IF r.commits_behind > 0
                   THEN Append(r2, ToString(r.commits_behind) \o " commit(s) behind")
                   ELSE r2
             r4 == IF r.commits_ahead > 0
                   THEN Append(r3, ToString(r.commits_ahead) \o " commit(s) ahead")
                   ELSE r3
         IN  r4

\* describe without the early return for a clean result
describe_no_all_good(r) ==
    LET r1 == IF r.state # "Clean"
              THEN <<"unclean state " \o r.state>> ELSE <<>>
        change_count == Len(r.statuses)
        r2 == IF change_count > 0
              THEN Append(r1, ToString(change_count) \o " uncommitted change(s)")
              ELSE r1
        r3 == IF r.commits_ahead > 0
              THEN Append(r2, ToString(r.commits_ahead) \o " commit(s) ahead")
              ELSE r2
        r4 == IF r.commits_behind > 0
              THEN Append(r3, ToString(r.commits_behind) \o " commit(s) behind")
              ELSE r3
    IN  r4

describe(r) ==
    IF is_all_good(r) THEN <<"all good">>
    ELSE LET r1 == IF r.state # "Clean"
                   THEN <<"unclean state " \o r.state>> ELSE <<>>
             change_count == Len(r.statuses)
             r2 == IF change_count > 0
                   THEN Append(r1, ToString(change_count) \o " uncommitted change(s)")
                   ELSE r1
             r3 == IF r.commits_ahead > 0
                   THEN Append(r2, ToString(r.commits_ahead) \o " commit(s) ahead")
                   ELSE r2
             r4 == IF r.commits_behind > 0
                   THEN Append(r3, ToString(r.commits_behind) \o " commit(s) behind")
                   ELSE r3
         IN  r4

(* Description of one check result *)

InitDescribe ==
    /\ chk \in GitCheckResult
    /\ described = FALSE
    /\ all_good = FALSE
    /\ facts = <<>>

IdleDescribe ==
    /\ chk = [state |-> "Clean", statuses |-> <<>>, commits_ahead |-> 0,
              commits_behind |-> 0]
    /\ described = FALSE
    /\ all_good = FALSE
    /\ facts = <<>>

\* a caller evaluates is_all_good() and describe() on the result it holds
Describe ==
    /\ ~described
    /\ described' = TRUE
    /\ all_good' = is_all_good(chk)
    /\ facts' = describe(chk)
    /\ UNCHANGED <<chk, dirVars, scanVars, fixVars, auxVars>>

\* the next evaluation yields a fresh result
NewCheckResult ==
    /\ described
    /\ chk' \in GitCheckResult
    /\ described' = FALSE
    /\ all_good' = FALSE
    /\ facts' = <<>>
    /\ UNCHANGED <<dirVars, scanVars, fixVars, auxVars>>

----------------------------------------------------------------------------
(* Paths and shell expansion *)

\* A path is the sequence of its components; an absolute path starts with
\* the root component "/".
Root == "/"

HomeDir == <<Root, "home">>

\* the process environment: the variables that are set
Environment == [v \in {"$HOME"} |-> HomeDir]

\* variable references that occur in configured paths
VarRefs == {"$HOME", "$UNDEFINED_VAR"}

Ok(v) == [ok |-> TRUE, val |-> v, err |-> <<>>]
Err(e) == [ok |-> FALSE, val |-> <<>>, err |-> e]

RECURSIVE expand_vars(_)
expand_vars(p) ==
    IF p = <<>> THEN Ok(<<>>)
    ELSE LET c == Head(p)
             rest == expand_vars(Tail(p))
         IN  IF c \in VarRefs /\ c \notin DOMAIN Environment THEN Err(<<c>>)
             ELSE IF ~rest.ok THEN rest
             ELSE IF c \in VarRefs THEN Ok(Environment[c] \o rest.val)
             ELSE Ok(<<c>> \o rest.val)

\* shellexpand::full: a leading ~ becomes the home directory, every $VAR its
\* value; a reference to an unset variable is an error
shellexpand_full(p) ==
    IF p # <<>> /\ Head(p) = "~"
    THEN LET rest == expand_vars(Tail(p))
         IN  IF rest.ok THEN Ok(HomeDir \o rest.val) ELSE rest
    ELSE expand_vars(p)

\* configured path strings: "$UNDEFINED_VAR/x", "/w/a", "r", "~/p"
P_undef == <<"$UNDEFINED_VAR", "x">>
P_abs == <<Root, "w", "a">>
P_rel == <<"r">>
P_home == <<"~", "p">>

\* the configured paths in the byte order of their strings
\* ('$' < '/' < 'r' < '~'), which is the iteration order of BTreeSet<String>
PathOrder == <<P_undef, P_abs, P_rel, P_home>>

ConfigPaths == {PathOrder[i] : i \in 1..Len(PathOrder)}

\* the set's elements in descending order
BTreeSetIter_descending(S) ==
    LET asc == SelectSeq(PathOrder, LAMBDA p : p \in S)
    IN  [i \in 1..Len(asc) |-> asc[Len(asc) + 1 - i]]

\* cfg.git.iter(): the set's elements in ascending order
BTreeSetIter(S) == SelectSeq(PathOrder, LAMBDA p : p \in S)

----------------------------------------------------------------------------
(* dir.rs: get_expanded_dirs *)

RECURSIVE expanded_dirs_loop(_, _, _)
expanded_dirs_loop(dirs, skip_errors, acc) ==
    IF dirs = <<>> THEN Ok(acc)
    ELSE LET d == shellexpand_full(Head(dirs))
         IN  IF d.ok THEN expanded_dirs_loop(Tail(dirs), skip_errors, Append(acc, d.val))
             ELSE IF skip_errors THEN expanded_dirs_loop(Tail(dirs), skip_errors, acc)
             ELSE Err(Head(dirs))

\* get_expanded_dirs that skips an unexpandable dir whatever no_skip is
get_expanded_dirs_always_skip(dirs, no_skip_flag) ==
    expanded_dirs_loop(dirs, TRUE, <<>>)

get_expanded_dirs(dirs, no_skip_flag) ==
    expanded_dirs_loop(dirs, ~no_skip_flag, <<>>)

InitDirs ==
    /\ rin \in SeqsUpTo(ConfigPaths, MaxDirs)
    /\ rno_skip \in BOOLEAN
    /\ rdone = FALSE
    /\ rret = Ok(<<>>)

IdleDirs ==
    /\ rin = <<>>
    /\ rno_skip = FALSE
    /\ rdone = FALSE
    /\ rret = Ok(<<>>)

ResolveDirs ==
    /\ ~rdone
    /\ rdone' = TRUE
    /\ rret' = get_expanded_dirs(rin, rno_skip)
    /\ UNCHANGED <<rin, rno_skip, descVars, scanVars, fixVars, auxVars>>

NewDirs ==
    /\ rdone
    /\ rin' \in SeqsUpTo(ConfigPaths, MaxDirs)
    /\ rno_skip' \in BOOLEAN
    /\ rdone' = FALSE
    /\ rret' = Ok(<<>>)
    /\ UNCHANGED <<descVars, scanVars, fixVars, auxVars>>

----------------------------------------------------------------------------
(* main.rs: the top-level scan *)

CleanResult ==
    [state |-> "Clean", statuses |-> <<>>, commits_ahead |-> 0, commits_behind |-> 0]

\* check results a directory is found in: clean, two uncommitted files and one
\* commit behind, a merge in progress and one commit ahead
SampleResults ==
    {CleanResult,
     [state |-> "Clean", statuses |-> <<"WT_MODIFIED", "WT_NEW">>,
      commits_ahead |-> 0, commits_behind |-> 1],
     [state |-> "Merge", statuses |-> <<>>, commits_ahead |-> 1, commits_behind |-> 0]}

\* what checking a directory yields: a check result, or an error (the
\* directory is no repository, or a query of it failed)
CheckOutcomes ==
    {[ok |-> TRUE, res |-> r] : r \in SampleResults}
        \cup {[ok |-> FALSE, res |-> CleanResult]}

RECURSIVE Join(_, _)
Join(strs, sep) ==
    IF strs = <<>> THEN ""
    ELSE IF Len(strs) = 1 THEN strs[1]
    ELSE strs[1] \o sep \o Join(Tail(strs), sep)

RECURSIVE visit_loop(_, _, _, _, _)
visit_loop(dirs, outcome, verbose, clean, printed) ==
    IF dirs = <<>> THEN [ok |-> TRUE, clean |-> clean, out |-> printed]
    ELSE LET d == Head(dirs)
             expanded_dir == shellexpand_full(d)
         IN  IF ~expanded_dir.ok THEN [ok |-> FALSE, clean |-> clean, out |-> printed]
             ELSE LET check_result == outcome[d]
                  IN  IF ~check_result.ok
                      THEN [ok |-> FALSE, clean |-> clean, out |-> printed]
                      ELSE visit_loop(
                               Tail(dirs), outcome, verbose,
                               clean /\ is_all_good(check_result.res),
                               IF ~is_all_good(check_result.res) \/ verbose
                               THEN Append(printed,
                                           [dir |-> d,
                                            text |-> Join(describe(check_result.res), " | ")])
                               ELSE printed)

\* Ok(clean) or the first error; the no-skip flag is not consulted
visit_all_repos(git, outcome, verbose) ==
    visit_loop(BTreeSetIter(git), outcome, verbose, TRUE, <<>>)

\* the process exit status of the scan command
main_exit_status(visited) ==
    IF ~visited.ok THEN 1
    ELSE IF visited.clean THEN 0
    ELSE 1

InitScan ==
    /\ sgit \in SUBSET ConfigPaths
    /\ sno_skip \in BOOLEAN
    /\ sverbose \in BOOLEAN
    /\ soutcome \in [sgit -> CheckOutcomes]
    /\ spc = "start"
    /\ sexit = 0
    /\ sout = <<>>

IdleScan ==
    /\ sgit = {}
    /\ sno_skip = FALSE
    /\ sverbose = FALSE
    /\ soutcome = <<>>
    /\ spc = "start"
    /\ sexit = 0
    /\ sout = <<>>

\* main with no subcommand
Scan ==
    /\ spc = "start"
    /\ LET visited == visit_all_repos(sgit, soutcome, sverbose)
       IN  /\ sexit' = main_exit_status(visited)
           /\ sout' = IF visited.ok /\ visited.clean
                      THEN Append(visited.out, [dir |-> <<>>, text |-> "OK"])
                      ELSE visited.out
    /\ spc' = "exited"
    /\ UNCHANGED <<sgit, sno_skip, sverbose, soutcome, descVars, dirVars, fixVars, auxVars>>

----------------------------------------------------------------------------
(* The process's working directory and the custom entries *)

\* the directory the process is started in
StartDir == <<Root, "w">>

\* the directories of the file system
ExistingDirs ==
    {<<Root>>, <<Root, "w">>, <<Root, "w", "a">>, <<Root, "w", "r">>,
     <<Root, "w", "r", "r">>, <<Root, "home">>, <<Root, "home", "p">>}

IsAbsolute(p) == p # <<>> /\ Head(p) = Root

\* std::env::set_current_dir: a relative path is taken from the current
\* directory; Ok(the new current directory) or an error
set_current_dir(cur, p) ==
    LET target == IF IsAbsolute(p) THEN p ELSE cur \o p
    IN  IF target \in ExistingDirs THEN Ok(target) ELSE Err(p)

\* libc::EXIT_SUCCESS and one failing exit status
EXIT_SUCCESS == 0
ExitStatuses == {EXIT_SUCCESS, 1}

\* a command string with an interior NUL byte, which CString::new rejects
NulCommand == "printf <NUL>"

CustomEntries ==
    {[name |-> "c1", path |-> P_abs, check_cmd |-> "test -e done",
      refresh_cmd |-> "true"],
     [name |-> "c2", path |-> P_rel, check_cmd |-> "make check",
      refresh_cmd |-> "true"],
     [name |-> "c3", path |-> P_undef, check_cmd |-> "true",
      refresh_cmd |-> "true"]}

\* the adapter taking a non-zero exit status for an error
custom_check_err_on_nonzero(entry, cur, status) ==
    LET expanded_path == shellexpand_full(entry.path)
    IN  IF ~expanded_path.ok THEN [ok |-> FALSE, res |-> FALSE, cwd |-> cur]
        ELSE LET moved == set_current_dir(cur, expanded_path.val)
             IN  IF ~moved.ok THEN [ok |-> FALSE, res |-> FALSE, cwd |-> cur]
                 ELSE IF entry.check_cmd = NulCommand
                 THEN [ok |-> FALSE, res |-> FALSE, cwd |-> moved.val]
                 ELSE LET back == set_current_dir(moved.val, cur)
                      IN  IF ~back.ok \/ status # EXIT_SUCCESS
                          THEN [ok |-> FALSE, res |-> FALSE, cwd |-> back.val]
                          ELSE [ok |-> TRUE, res |-> TRUE, cwd |-> back.val]

\* CustomEntry::check run from directory cur, the check command exiting with
\* status: the verdict or an error, and the directory the process is left in
custom_check(entry, cur, status) ==
    LET expanded_path == shellexpand_full(entry.path)
    IN  IF ~expanded_path.ok THEN [ok |-> FALSE, res |-> FALSE, cwd |-> cur]
        ELSE LET moved == set_current_dir(cur, expanded_path.val)
             IN  IF ~moved.ok THEN [ok |-> FALSE, res |-> FALSE, cwd |-> cur]
                 ELSE IF entry.check_cmd = NulCommand
                 THEN [ok |-> FALSE, res |-> FALSE, cwd |-> moved.val]
                 ELSE LET back == set_current_dir(moved.val, cur)
                      IN  IF ~back.ok
                          THEN [ok |-> FALSE, res |-> FALSE, cwd |-> moved.val]
                          ELSE [ok |-> TRUE, res |-> (status = EXIT_SUCCESS),
                                cwd |-> back.val]

----------------------------------------------------------------------------
(* dir.rs: the failing lists *)

\* what check_repo_in_dir may yield for a directory: an error, a clean
\* result or a dirty one
check_repo_in_dir(d) ==
    {o \in CheckOutcomes : ~o.ok \/ o.res.state = "Clean"}

RECURSIVE failing_dirs_loop(_, _, _, _)
failing_dirs_loop(expanded_dirs, outcomes, no_skip_flag, acc) ==
    IF expanded_dirs = <<>> THEN Ok(acc)
    ELSE LET chk_res == Head(outcomes)
         IN  IF chk_res.ok
             THEN failing_dirs_loop(
                      Tail(expanded_dirs), Tail(outcomes), no_skip_flag,
                      IF ~is_all_good(chk_res.res)
                      THEN Append(acc, Head(expanded_dirs)) ELSE acc)
             ELSE IF no_skip_flag THEN Err(Head(expanded_dirs))
             ELSE failing_dirs_loop(Tail(expanded_dirs), Tail(outcomes),
                                    no_skip_flag, acc)

\* the failing list that keeps every expanded directory, clean or not
get_failing_expanded_dirs_unfiltered(dirs, no_skip_flag, outcomes) ==
    get_expanded_dirs(dirs, no_skip_flag)

\* outcomes[i] is what checking the i-th expanded directory yields
get_failing_expanded_dirs(dirs, no_skip_flag, outcomes) ==
    LET expanded_dirs == get_expanded_dirs(dirs, no_skip_flag)
    IN  IF ~expanded_dirs.ok THEN expanded_dirs
        ELSE failing_dirs_loop(expanded_dirs.val, outcomes, no_skip_flag, <<>>)

RECURSIVE failing_custom_loop(_, _, _, _, _)
failing_custom_loop(entries, statuses, no_skip_flag, cur, acc) ==
    IF entries = <<>> THEN [ok |-> TRUE, val |-> acc, cwd |-> cur]
    ELSE LET c == custom_check(Head(entries), cur, Head(statuses))
         IN  IF c.ok
             THEN failing_custom_loop(
                      Tail(entries), Tail(statuses), no_skip_flag, c.cwd,
                      IF ~c.res THEN Append(acc, Head(entries)) ELSE acc)
             ELSE IF no_skip_flag THEN [ok |-> FALSE, val |-> <<>>, cwd |-> c.cwd]
             ELSE failing_custom_loop(Tail(entries), Tail(statuses), no_skip_flag,
                                      c.cwd, acc)

\* statuses[i] is the exit status of the i-th entry's check command
get_failing_custom_entries(entries, no_skip_flag, cur, statuses) ==
    failing_custom_loop(entries, statuses, no_skip_flag, cur, <<>>)

\* what evaluating each custom entry yielded, the process being left by one
\* evaluation where the next one starts
RECURSIVE Evaluations(_, _, _)
Evaluations(entries, statuses, cur) ==
    IF entries = <<>> THEN <<>>
    ELSE LET c == custom_check(Head(entries), cur, Head(statuses))
         IN  <<c>> \o Evaluations(Tail(entries), Tail(statuses), c.cwd)

\* how the initial scan found an entry
Found(ok, clean) == IF ~ok THEN "err" ELSE IF clean THEN "clean" ELSE "dirty"

----------------------------------------------------------------------------
(* command.rs: handle_fix and handle_fix_custom *)

\* a progress line that counts positions from zero
Line_zero_indexed(kind, i, total, id, text) ==
    [line |-> kind, i |-> i - 1, total |-> total, id |-> id, text |-> text]

\* a printed line: its kind, the 1-indexed position and the total it shows,
\* the entry's identity and the rest of its text
Line(kind, i, total, id, text) ==
    [line |-> kind, i |-> i, total |-> total, id |-> id, text |-> text]

\* number of remediation commands run so far for the entry at position i
Runs(i) == Len(SelectSeq(run_log, LAMBDA r : r.i = i))

\* where the loop goes after an attempt on a repository entry: the command's
\* exit status is only logged, the re-check decides
after_attempt_fatal_exit(status, check_res) ==
    IF status # EXIT_SUCCESS THEN "err"
    ELSE IF ~check_res.ok THEN "err"
    ELSE IF ~is_all_good(check_res.res) THEN "prompt"
    ELSE "leave"

after_attempt_always_prompt(status, check_res) ==
    IF ~check_res.ok THEN "err" ELSE "prompt"

after_attempt(status, check_res) ==
    IF ~check_res.ok THEN "err"
    ELSE IF ~is_all_good(check_res.res) THEN "prompt"
    ELSE "leave"

\* the same after an attempt on a custom entry, checked by entry.check()
after_attempt_custom(status, checked) ==
    IF ~checked.ok THEN "err"
    ELSE IF ~checked.res THEN "prompt"
    ELSE "leave"

\* the retry prompt answered: continue or break
after_answer_no_retry(retry) == "leave"

after_answer(retry) == IF retry THEN "loop" ELSE "leave"

\* the directory the process is in after the save/restore bracket closes
restore_cwd_skipped(cur, saved) == Ok(cur)

restore_cwd(cur, saved) == set_current_dir(cur, saved)

\* the handler returns an error at once; nothing else changes
ReturnErr ==
    /\ pc' = "done"
    /\ ret' = "Err"

\* the loop is over: restore the saved directory and return
ReturnAfterLoop(cur, saved) ==
    LET back == restore_cwd(cur, saved)
    IN  /\ pc' = "done"
        /\ cwd' = IF back.ok THEN back.val ELSE cur
        /\ ret' = IF back.ok THEN "Ok" ELSE "Err"

IdleFix ==
    /\ cfg = [git |-> {}, custom |-> <<>>]
    /\ cfg0 = cfg
    /\ no_skip = FALSE
    /\ cwd = StartDir
    /\ cwd0 = StartDir
    /\ pc = "idle"
    /\ handler = "none"
    /\ failing_expanded_dirs = <<>>
    /\ failing_custom_entries = <<>>
    /\ idx = 0
    /\ dir = <<>>
    /\ saved_cwd = StartDir
    /\ command_result = EXIT_SUCCESS
    /\ verdict = "none"
    /\ run_log = <<>>
    /\ answers = <<>>
    /\ out = <<>>
    /\ ret = "none"
    /\ initial_scan = <<>>

\* lists of custom entries with pairwise different names
CustomLists ==
    {l \in SeqsUpTo(CustomEntries, MaxEntries) :
        \A i, j \in 1..Len(l) : l[i].name = l[j].name => i = j}

InitFix ==
    /\ cfg \in {c \in [git : SUBSET ConfigPaths, custom : CustomLists] :
                    Cardinality(c.git) + Len(c.custom) <= MaxEntries}
    /\ cfg0 = cfg
    /\ no_skip \in BOOLEAN
    /\ cwd = StartDir
    /\ cwd0 = StartDir
    /\ pc = "idle"
    /\ handler = "none"
    /\ failing_expanded_dirs = <<>>
    /\ failing_custom_entries = <<>>
    /\ idx = 0
    /\ dir = <<>>
    /\ saved_cwd = StartDir
    /\ command_result = EXIT_SUCCESS
    /\ verdict = "none"
    /\ run_log = <<>>
    /\ answers = <<>>
    /\ out = <<>>
    /\ ret = "none"
    /\ initial_scan = <<>>

\* handle_fix up to the first loop iteration
HandleFixStart ==
    /\ pc = "idle"
    /\ handler' = "fix"
    /\ cfg0' = cfg
    /\ cwd0' = cwd
    /\ LET dirs == BTreeSetIter(cfg.git)
           expanded == get_expanded_dirs(dirs, no_skip)
       IN  \E outcomes \in [1..Len(expanded.val) -> check_repo_in_dir(<<>>)] :
             LET failing == get_failing_expanded_dirs(dirs, no_skip, outcomes)
                 failing_count == Len(failing.val)
             IN  /\ initial_scan' =
                        [i \in 1..Len(expanded.val) |->
                            [id |-> expanded.val[i],
                             found |-> Found(outcomes[i].ok,
                                             is_all_good(outcomes[i].res))]]
                 /\ IF ~failing.ok
                    THEN /\ ReturnErr
                         /\ UNCHANGED <<failing_expanded_dirs, saved_cwd, out, cwd>>
                    ELSE /\ failing_expanded_dirs' = failing.val
                         /\ out' = IF failing_count > 0
                                   THEN <<Line("Fixing git dirs", 0, failing_count, <<>>, "")>>
                                   ELSE <<>>
                         /\ saved_cwd' = cwd
                         /\ IF failing_count = 0
                            THEN ReturnAfterLoop(cwd, cwd)
                            ELSE /\ pc' = "loop"
                                 /\ UNCHANGED <<cwd, ret>>
    /\ idx' = 0
    /\ UNCHANGED <<cfg, no_skip, failing_custom_entries, dir, command_result, verdict,
                   run_log, answers, descVars, dirVars, scanVars, auxVars>>

\* one pass of the loop body of handle_fix: change directory, run CMD,
\* re-run the check.  CMD is a command-line argument and holds no NUL byte, so
\* CString::new(cmd) does not fail.
FixAttempt ==
    /\ pc = "loop"
    /\ handler = "fix"
    /\ LET d == failing_expanded_dirs[idx + 1]
           total == Len(failing_expanded_dirs)
           moved == set_current_dir(cwd, d)
       IN  IF ~moved.ok
           THEN /\ ReturnErr
                /\ UNCHANGED <<cwd, out, command_result, verdict, run_log>>
           ELSE \E status \in ExitStatuses, check_res \in check_repo_in_dir(d) :
                  LET next == after_attempt(status, check_res)
                      v == IF ~check_res.ok THEN "err"
                           ELSE IF is_all_good(check_res.res) THEN "good"
                           ELSE "dirty"
                      fixing == Append(out, Line("Fixing", idx + 1, total, d, ""))
                  IN  /\ cwd' = moved.val
                      /\ command_result' = status
                      /\ verdict' = v
                      /\ run_log' = Append(run_log,
                                           [i |-> idx + 1, at |-> moved.val,
                                            exit |-> status, verdict |-> v])
                      /\ out' = IF next = "prompt"
                                THEN Append(fixing,
                                            Line("Retry?", idx + 1, total, d,
                                                 Join(describe(check_res.res), ", ")))
                                ELSE fixing
                      /\ IF next = "err" THEN ReturnErr
                         ELSE pc' = next /\ UNCHANGED ret
    /\ UNCHANGED <<cfg, cfg0, no_skip, cwd0, handler, failing_expanded_dirs,
                   failing_custom_entries, idx, dir, saved_cwd, answers,
                   initial_scan,
                   descVars, dirVars, scanVars, auxVars>>

\* the user answers the retry prompt (or the prompt itself fails)
Answer(h) ==
    /\ pc = "prompt"
    /\ handler = h
    /\ \E ans \in {"yes", "no", "err"} :
         /\ ans = "yes" => Runs(idx + 1) < MaxAttempts
         /\ answers' = Append(answers, [i |-> idx + 1, ans |-> ans])
         /\ IF ans = "err" THEN ReturnErr
            ELSE pc' = after_answer(ans = "yes") /\ UNCHANGED ret
    /\ UNCHANGED <<cfg, cfg0, no_skip, cwd, cwd0, handler, failing_expanded_dirs,
                   failing_custom_entries, idx, dir, saved_cwd, command_result,
                   verdict, run_log, out, initial_scan,
                   descVars, dirVars, scanVars, auxVars>>

FixAnswer == Answer("fix")

\* after the break: print the leaving line, go on to the next entry or, after
\* the last one, restore the working directory and return
FixLeave ==
    /\ pc = "leave"
    /\ handler = "fix"
    /\ LET total == Len(failing_expanded_dirs)
       IN  /\ out' = Append(out, Line("Leaving", idx + 1, total,
                                      failing_expanded_dirs[idx + 1], ""))
           /\ IF idx + 1 < total
              THEN /\ idx' = idx + 1
                   /\ pc' = "loop"
                   /\ UNCHANGED <<cwd, ret>>
              ELSE /\ ReturnAfterLoop(cwd, saved_cwd)
                   /\ UNCHANGED idx
    /\ verdict' = "none"
    /\ UNCHANGED <<cfg, cfg0, no_skip, cwd0, handler, failing_expanded_dirs,
                   failing_custom_entries, dir, saved_cwd, command_result,
                   run_log, answers, initial_scan,
                   descVars, dirVars, scanVars, auxVars>>

\* handle_fix_custom up to the first entry
HandleFixCustomStart ==
    /\ pc = "idle"
    /\ handler' = "fix_custom"
    /\ cfg0' = cfg
    /\ cwd0' = cwd
    /\ \E statuses \in [1..Len(cfg.custom) -> ExitStatuses] :
         LET failing == get_failing_custom_entries(cfg.custom, no_skip, cwd, statuses)
             failing_count == Len(failing.val)
             checked == Evaluations(cfg.custom, statuses, cwd)
         IN  /\ initial_scan' =
                    [i \in 1..Len(cfg.custom) |->
                        [id |-> <<cfg.custom[i].name>>,
                         found |-> Found(checked[i].ok, checked[i].res)]]
             /\ IF ~failing.ok
                THEN /\ ReturnErr
                     /\ cwd' = failing.cwd
                     /\ UNCHANGED <<failing_custom_entries, saved_cwd, out>>
                ELSE /\ failing_custom_entries' = failing.val
                     /\ out' = IF failing_count > 0
                               THEN <<Line("Fixing custom dirs", 0, failing_count, <<>>, "")>>
                               ELSE <<>>
                     /\ saved_cwd' = failing.cwd
                     /\ IF failing_count = 0
                        THEN ReturnAfterLoop(failing.cwd, failing.cwd)
                        ELSE /\ pc' = "enter"
                             /\ cwd' = failing.cwd
                             /\ UNCHANGED ret
    /\ idx' = 0
    /\ UNCHANGED <<cfg, no_skip, failing_expanded_dirs, dir, command_result, verdict,
                   run_log, answers, descVars, dirVars, scanVars, auxVars>>

\* top of the for body of handle_fix_custom: expand the entry's path
FixCustomEnter ==
    /\ pc = "enter"
    /\ handler = "fix_custom"
    /\ LET expanded == shellexpand_full(failing_custom_entries[idx + 1].path)
       IN  IF ~expanded.ok
           THEN ReturnErr /\ UNCHANGED dir
           ELSE /\ dir' = expanded.val
                /\ pc' = "loop"
                /\ UNCHANGED ret
    /\ UNCHANGED <<cfg, cfg0, no_skip, cwd, cwd0, handler, failing_expanded_dirs,
                   failing_custom_entries, idx, saved_cwd, command_result, verdict,
                   run_log, answers, out, initial_scan,
                   descVars, dirVars, scanVars, auxVars>>

\* one pass of the loop body of handle_fix_custom: change directory, run CMD,
\* re-run the entry's check
FixCustomAttempt ==
    /\ pc = "loop"
    /\ handler = "fix_custom"
    /\ LET entry == failing_custom_entries[idx + 1]
           failing_count == Len(failing_custom_entries)
           moved == set_current_dir(cwd, dir)
       IN  IF ~moved.ok
           THEN /\ ReturnErr
                /\ UNCHANGED <<cwd, out, command_result, verdict, run_log>>
           ELSE \E status \in ExitStatuses, check_status \in ExitStatuses :
                  LET checked == custom_check(entry, moved.val, check_status)
                      next == after_attempt_custom(status, checked)
                      v == IF ~checked.ok THEN "err"
                           ELSE IF checked.res THEN "good"
                           ELSE "dirty"
                      fixing == Append(out, Line("Fixing", idx + 1, failing_count,
                                                 <<entry.name>>, entry.check_cmd))
                  IN  /\ cwd' = checked.cwd
                      /\ command_result' = status
                      /\ verdict' = v
                      /\ run_log' = Append(run_log,
                                           [i |-> idx + 1, at |-> moved.val,
                                            exit |-> status, verdict |-> v])
                      /\ out' = IF next = "prompt"
                                THEN Append(fixing,
                                            Line("Retry?", idx + 1, failing_count,
                                                 <<entry.name>>, ""))
                                ELSE fixing
                      /\ IF next = "err" THEN ReturnErr
                         ELSE pc' = next /\ UNCHANGED ret
    /\ UNCHANGED <<cfg, cfg0, no_skip, cwd0, handler, failing_expanded_dirs,
                   failing_custom_entries, idx, dir, saved_cwd, answers,
                   initial_scan,
                   descVars, dirVars, scanVars, auxVars>>

FixCustomAnswer == Answer("fix_custom")

FixCustomLeave ==
    /\ pc = "leave"
    /\ handler = "fix_custom"
    /\ LET failing_count == Len(failing_custom_entries)
       IN  /\ out' = Append(out, Line("Leaving", idx + 1, failing_count,
                                      <<failing_custom_entries[idx + 1].name>>, ""))
           /\ IF idx + 1 < failing_count
              THEN /\ idx' = idx + 1
                   /\ pc' = "enter"
                   /\ UNCHANGED <<cwd, ret>>
              ELSE /\ ReturnAfterLoop(cwd, saved_cwd)
                   /\ UNCHANGED idx
    /\ verdict' = "none"
    /\ UNCHANGED <<cfg, cfg0, no_skip, cwd0, handler, failing_expanded_dirs,
                   failing_custom_entries, dir, saved_cwd, command_result,
                   run_log, answers, initial_scan,
                   descVars, dirVars, scanVars, auxVars>>

\* a handler returned Ok and the process goes on to its next batch
NextBatch ==
    /\ pc = "done"
    /\ ret = "Ok"
    /\ pc' = "idle"
    /\ handler' = "none"
    /\ failing_expanded_dirs' = <<>>
    /\ failing_custom_entries' = <<>>
    /\ idx' = 0
    /\ dir' = <<>>
    /\ command_result' = EXIT_SUCCESS
    /\ verdict' = "none"
    /\ run_log' = <<>>
    /\ answers' = <<>>
    /\ out' = <<>>
    /\ ret' = "none"
    /\ initial_scan' = <<>>
    /\ UNCHANGED <<cfg, cfg0, no_skip, cwd, cwd0, saved_cwd, descVars, dirVars,
                   scanVars, auxVars>>

----------------------------------------------------------------------------
(* custom.rs: the custom check adapter, one call at a time *)

\* CustomEntry::refresh run from directory cur, the refresh command exiting
\* with status: Ok or an error, and the directory the process is left in
custom_refresh(entry, cur, status) ==
    LET expanded_path == shellexpand_full(entry.path)
    IN  IF ~expanded_path.ok THEN [ok |-> FALSE, res |-> FALSE, cwd |-> cur]
        ELSE LET moved == set_current_dir(cur, expanded_path.val)
             IN  IF ~moved.ok THEN [ok |-> FALSE, res |-> FALSE, cwd |-> cur]
                 ELSE IF entry.refresh_cmd = NulCommand
                 THEN [ok |-> FALSE, res |-> FALSE, cwd |-> moved.val]
                 ELSE LET back == set_current_dir(moved.val, cur)
                      IN  IF ~back.ok
                          THEN [ok |-> FALSE, res |-> FALSE, cwd |-> moved.val]
                          ELSE [ok |-> TRUE, res |-> TRUE, cwd |-> back.val]

\* a path whose directory does not exist: "/gone"
P_gone == <<Root, "gone">>

\* the entries the adapter is called on: every kind of path, commands with
\* and without a NUL byte
AdapterEntries ==
    [name : {"c"},
     path : {P_abs, P_rel, P_home, P_undef, P_gone},
     check_cmd : {"make check", NulCommand},
     refresh_cmd : {"git pull", NulCommand}]

InitCustom ==
    /\ ce_entry \in AdapterEntries
    /\ ce_cwd \in ExistingDirs
    /\ ce_op = "none"
    /\ ce_status = EXIT_SUCCESS
    /\ ce_done = FALSE
    /\ ce_ret = [ok |-> TRUE, res |-> TRUE]
    /\ ce_cwd_after = ce_cwd

IdleCustom ==
    /\ ce_entry = [name |-> "c", path |-> P_abs, check_cmd |-> "make check",
                   refresh_cmd |-> "git pull"]
    /\ ce_cwd = StartDir
    /\ ce_op = "none"
    /\ ce_status = EXIT_SUCCESS
    /\ ce_done = FALSE
    /\ ce_ret = [ok |-> TRUE, res |-> TRUE]
    /\ ce_cwd_after = StartDir

\* entry.check() is called with the process in ce_cwd
AdapterCheck ==
    /\ ~ce_done
    /\ \E status \in ExitStatuses :
         LET c == custom_check(ce_entry, ce_cwd, status)
         IN  /\ ce_status' = status
             /\ ce_ret' = [ok |-> c.ok, res |-> c.res]
             /\ ce_cwd_after' = c.cwd
    /\ ce_op' = "check"
    /\ ce_done' = TRUE
    /\ UNCHANGED <<ce_entry, ce_cwd, descVars, dirVars, scanVars, fixVars,
                   refreshVars, failingVars, repoVars, findVars, configVars>>

\* entry.refresh() is called with the process in ce_cwd
AdapterRefresh ==
    /\ ~ce_done
    /\ \E status \in ExitStatuses :
         LET c == custom_refresh(ce_entry, ce_cwd, status)
         IN  /\ ce_status' = status
             /\ ce_ret' = [ok |-> c.ok, res |-> c.res]
             /\ ce_cwd_after' = c.cwd
    /\ ce_op' = "refresh"
    /\ ce_done' = TRUE
    /\ UNCHANGED <<ce_entry, ce_cwd, descVars, dirVars, scanVars, fixVars,
                   refreshVars, failingVars, repoVars, findVars, configVars>>

\* the next call: another entry, from the directory the process is now in
AdapterNext ==
    /\ ce_done
    /\ ce_entry' \in AdapterEntries
    /\ ce_cwd' = ce_cwd_after
    /\ ce_op' = "none"
    /\ ce_status' = EXIT_SUCCESS
    /\ ce_done' = FALSE
    /\ ce_ret' = [ok |-> TRUE, res |-> TRUE]
    /\ UNCHANGED <<ce_cwd_after, descVars, dirVars, scanVars, fixVars,
                   refreshVars, failingVars, repoVars, findVars, configVars>>

----------------------------------------------------------------------------
(* command.rs: handle_refresh *)

\* the refresh commands a configuration may hold
RefreshCommands == {"git remote update", NulCommand}

\* the custom entries of a configuration that is refreshed
RefreshEntries ==
    CustomEntries \cup
    {[name |-> "c4", path |-> P_gone, check_cmd |-> "true",
      refresh_cmd |-> "true"],
     [name |-> "c5", path |-> P_abs, check_cmd |-> "true",
      refresh_cmd |-> NulCommand]}

\* one refresh command that ran: the entry and the command's exit status
Refreshed(kind, id, status) == [kind |-> kind, id |-> id, exit |-> status]

\* the loop over the expanded repository directories; repos is the set of
\* directories where Repository::discover succeeds
RECURSIVE refresh_git_loop(_, _, _, _, _, _, _)
refresh_git_loop(expanded_dirs, i, repos, refresh_cmd, no_skip_flag, status, acc) ==
    IF i > Len(expanded_dirs)
    THEN [ok |-> TRUE, refreshed |-> acc.refreshed, out |-> acc.out]
    ELSE LET d == expanded_dirs[i]
             printed == Append(acc.out,
                            Line("Refreshing git dir", i, Len(expanded_dirs), d, ""))
         IN  IF d \notin repos
             THEN IF no_skip_flag
                  THEN [ok |-> FALSE, refreshed |-> acc.refreshed, out |-> printed]
                  ELSE refresh_git_loop(expanded_dirs, i + 1, repos, refresh_cmd,
                           no_skip_flag, status,
                           [refreshed |-> acc.refreshed, out |-> printed])
             ELSE IF refresh_cmd = NulCommand
             THEN [ok |-> FALSE, refreshed |-> acc.refreshed, out |-> printed]
             ELSE refresh_git_loop(expanded_dirs, i + 1, repos, refresh_cmd,
                      no_skip_flag, status,
                      [refreshed |-> Append(acc.refreshed, Refreshed("git", d, status)),
                       out |-> printed])

\* the map over the custom entries, collected into one Result: the first
\* error ends the iteration
RECURSIVE refresh_custom_loop(_, _, _, _, _)
refresh_custom_loop(custom, i, cur, status, acc) ==
    IF i > Len(custom)
    THEN [ok |-> TRUE, refreshed |-> acc.refreshed, out |-> acc.out, cwd |-> cur]
    ELSE LET entry == custom[i]
             printed == Append(acc.out,
                            Line("Refreshing custom dir", i, Len(custom),
                                 entry.name, ""))
             r == custom_refresh(entry, cur, status)
         IN  IF ~r.ok
             THEN [ok |-> FALSE, refreshed |-> acc.refreshed, out |-> printed,
                   cwd |-> r.cwd]
             ELSE refresh_custom_loop(custom, i + 1, r.cwd, status,
                      [refreshed |-> Append(acc.refreshed,
                                        Refreshed("custom", entry.name, status)),
                       out |-> printed])

\* handle_refresh giving up on the repositories after a refresh command that
\* exits with a non-zero status
handle_refresh_stopping_on_failure(c, no_skip_flag, cur, repos, git_status, custom_status) ==
    LET expanded_dirs == get_expanded_dirs(BTreeSetIter(c.git), no_skip_flag)
        visited == IF git_status = EXIT_SUCCESS \/ expanded_dirs.val = <<>>
                   THEN expanded_dirs.val
                   ELSE SubSeq(expanded_dirs.val, 1, 1)
    IN  IF ~expanded_dirs.ok
        THEN [ok |-> FALSE, refreshed |-> <<>>, out |-> <<>>, cwd |-> cur]
        ELSE LET g == refresh_git_loop(visited, 1, repos, c.refresh_cmd,
                          no_skip_flag, git_status,
                          [refreshed |-> <<>>, out |-> <<>>])
             IN  IF ~g.ok
                 THEN [ok |-> FALSE, refreshed |-> g.refreshed, out |-> g.out,
                       cwd |-> cur]
                 ELSE refresh_custom_loop(c.custom, 1, cur, custom_status,
                          [refreshed |-> g.refreshed, out |-> g.out])

\* handle_refresh on configuration c from directory cur; git_status and
\* custom_status are the exit statuses of the refresh commands
handle_refresh(c, no_skip_flag, cur, repos, git_status, custom_status) ==
    LET expanded_dirs == get_expanded_dirs(BTreeSetIter(c.git), no_skip_flag)
    IN  IF ~expanded_dirs.ok
        THEN [ok |-> FALSE, refreshed |-> <<>>, out |-> <<>>, cwd |-> cur]
        ELSE LET g == refresh_git_loop(expanded_dirs.val, 1, repos, c.refresh_cmd,
                          no_skip_flag, git_status,
                          [refreshed |-> <<>>, out |-> <<>>])
             IN  IF ~g.ok
                 THEN [ok |-> FALSE, refreshed |-> g.refreshed, out |-> g.out,
                       cwd |-> cur]
                 ELSE refresh_custom_loop(c.custom, 1, cur, custom_status,
                          [refreshed |-> g.refreshed, out |-> g.out])

\* the directories the configured paths may expand to
ExpandedPaths ==
    {shellexpand_full(p).val : p \in {q \in ConfigPaths : shellexpand_full(q).ok}}

InitRefresh ==
    /\ hr_cfg \in {c \in [refresh_cmd : RefreshCommands,
                          git : SUBSET ConfigPaths,
                          custom : SeqsUpTo(RefreshEntries, MaxEntries)] :
                      /\ Cardinality(c.git) <= MaxEntries
                      /\ \A i, j \in 1..Len(c.custom) :
                             c.custom[i].name = c.custom[j].name => i = j}
    /\ hr_no_skip \in BOOLEAN
    /\ hr_repos \in SUBSET ExpandedPaths
    /\ hr_cwd = StartDir
    /\ hr_done = FALSE
    /\ hr_ret = "none"
    /\ hr_refreshed = <<>>
    /\ hr_out = <<>>
    /\ hr_cwd_after = StartDir

IdleRefresh ==
    /\ hr_cfg = [refresh_cmd |-> "git remote update", git |-> {}, custom |-> <<>>]
    /\ hr_no_skip = FALSE
    /\ hr_repos = {}
    /\ hr_cwd = StartDir
    /\ hr_done = FALSE
    /\ hr_ret = "none"
    /\ hr_refreshed = <<>>
    /\ hr_out = <<>>
    /\ hr_cwd_after = StartDir

\* the refresh subcommand, from start to return
HandleRefresh ==
    /\ ~hr_done
    /\ \E git_status, custom_status \in ExitStatuses :
         LET r == handle_refresh(hr_cfg, hr_no_skip, hr_cwd, hr_repos,
                                 git_status, custom_status)
         IN  /\ hr_ret' = IF r.ok THEN "Ok" ELSE "Err"
             /\ hr_refreshed' = r.refreshed
             /\ hr_out' = r.out
             /\ hr_cwd_after' = r.cwd
    /\ hr_done' = TRUE
    /\ UNCHANGED <<hr_cfg, hr_no_skip, hr_repos, hr_cwd, descVars, dirVars,
                   scanVars, fixVars, customVars, failingVars, repoVars, findVars, configVars>>

----------------------------------------------------------------------------
(* dir.rs, main.rs: one computation of a failing list *)

\* main.rs get_failing_expanded_dirs: each directory is expanded and checked
\* before the next one is looked at; world[d] is what checking d yields
RECURSIVE failing_dirs_loop_main(_, _, _, _)
failing_dirs_loop_main(dirs, world, no_skip_flag, acc) ==
    IF dirs = <<>> THEN Ok(acc)
    ELSE LET expanded_dir == shellexpand_full(Head(dirs))
         IN  IF ~expanded_dir.ok
             THEN IF no_skip_flag THEN Err(Head(dirs))
                  ELSE failing_dirs_loop_main(Tail(dirs), world, no_skip_flag, acc)
             ELSE LET chk_res == world[expanded_dir.val]
                  IN  IF chk_res.ok
                      THEN failing_dirs_loop_main(
                               Tail(dirs), world, no_skip_flag,
                               IF ~is_all_good(chk_res.res)
                               THEN Append(acc, expanded_dir.val) ELSE acc)
                      ELSE IF no_skip_flag THEN Err(expanded_dir.val)
                      ELSE failing_dirs_loop_main(Tail(dirs), world,
                                                  no_skip_flag, acc)

get_failing_expanded_dirs_main(dirs, no_skip_flag, world) ==
    failing_dirs_loop_main(dirs, world, no_skip_flag, <<>>)

\* the outcomes of checking the directories dirs expand to, in order
OutcomesIn(world, dirs, no_skip_flag) ==
    LET expanded_dirs == get_expanded_dirs(dirs, no_skip_flag)
    IN  IF ~expanded_dirs.ok THEN <<>>
        ELSE [i \in 1..Len(expanded_dirs.val) |-> world[expanded_dirs.val[i]]]

\* the custom entries a failing list is computed over
FailingEntries == {e \in AdapterEntries : e.refresh_cmd = "git pull"}

\* a world in which every directory is a clean repository
CleanWorld == [d \in ExpandedPaths |-> [ok |-> TRUE, res |-> CleanResult]]

InitFailing ==
    /\ fl_no_skip \in BOOLEAN
    /\ fl_fn = "none"
    /\ fl_ret = Ok(<<>>)
    /\ \/ /\ fl_input = "dirs"
          /\ fl_dirs \in SeqsUpTo(ConfigPaths, MaxDirs)
          /\ fl_world \in [ExpandedPaths -> check_repo_in_dir(<<>>)]
          /\ fl_entries = <<>>
          /\ fl_statuses = <<>>
       \/ /\ fl_input = "entries"
          /\ fl_entries \in SeqsUpTo(FailingEntries, MaxEntries)
          /\ fl_statuses \in [1..Len(fl_entries) -> ExitStatuses]
          /\ fl_dirs = <<>>
          /\ fl_world = CleanWorld

IdleFailing ==
    /\ fl_no_skip = FALSE
    /\ fl_fn = "none"
    /\ fl_ret = Ok(<<>>)
    /\ fl_input = "dirs"
    /\ fl_dirs = <<>>
    /\ fl_world = CleanWorld
    /\ fl_entries = <<>>
    /\ fl_statuses = <<>>

\* dir.rs get_failing_expanded_dirs is called on fl_dirs
FailingDirs ==
    /\ fl_fn = "none"
    /\ fl_input = "dirs"
    /\ fl_fn' = "get_failing_expanded_dirs"
    /\ fl_ret' = get_failing_expanded_dirs(
                     fl_dirs, fl_no_skip, OutcomesIn(fl_world, fl_dirs, fl_no_skip))
    /\ UNCHANGED <<fl_input, fl_dirs, fl_entries, fl_no_skip, fl_world,
                   fl_statuses, descVars, dirVars, scanVars, fixVars,
                   customVars, refreshVars, repoVars, findVars, configVars>>

\* main.rs get_failing_expanded_dirs is called on fl_dirs
FailingDirsMain ==
    /\ fl_fn = "none"
    /\ fl_input = "dirs"
    /\ fl_fn' = "main::get_failing_expanded_dirs"
    /\ fl_ret' = get_failing_expanded_dirs_main(fl_dirs, fl_no_skip, fl_world)
    /\ UNCHANGED <<fl_input, fl_dirs, fl_entries, fl_no_skip, fl_world,
                   fl_statuses, descVars, dirVars, scanVars, fixVars,
                   customVars, refreshVars, repoVars, findVars, configVars>>

\* dir.rs get_failing_custom_entries is called on fl_entries, the process
\* being in StartDir
FailingCustom ==
    /\ fl_fn = "none"
    /\ fl_input = "entries"
    /\ fl_fn' = "get_failing_custom_entries"
    /\ LET r == get_failing_custom_entries(fl_entries, fl_no_skip, StartDir,
                                           fl_statuses)
       IN  fl_ret' = IF r.ok THEN Ok(r.val) ELSE Err(<<>>)
    /\ UNCHANGED <<fl_input, fl_dirs, fl_entries, fl_no_skip, fl_world,
                   fl_statuses, descVars, dirVars, scanVars, fixVars,
                   customVars, refreshVars, repoVars, findVars, configVars>>

----------------------------------------------------------------------------
(* git.rs: check_repo *)

\* what check_repo reads of a repository: the working-tree state and
\* statuses (and whether the status query succeeds), what HEAD is, whether
\* the queries of the HEAD reference succeed, the branch's upstream, and how
\* far HEAD and the upstream (or, without one, any other branch) diverge
Repositories ==
    [state : RepositoryState,
     statuses_ok : BOOLEAN,
     statuses : {<<>>, <<"WT_MODIFIED">>},
     head : {"unborn", "detached", "branch"},
     resolve_ok : BOOLEAN,
     has_target : BOOLEAN,
     name_utf8 : BOOLEAN,
     upstream : {"none", "ok", "non_utf8"},
     remote_ref_ok : BOOLEAN,
     graph_ok : BOOLEAN,
     graph : [ahead : 0..MaxCommits, behind : 0..MaxCommits]]

\* check_repo that counts the divergence of a detached HEAD as well
check_repo_counting_detached(repo) ==
    IF ~repo.statuses_ok THEN [ok |-> FALSE, res |-> CleanResult]
    ELSE IF repo.head = "unborn"
    THEN [ok |-> TRUE,
          res |-> [state |-> repo.state, statuses |-> <<>>,
                   commits_ahead |-> 0, commits_behind |-> 0]]
    ELSE IF ~repo.resolve_ok THEN [ok |-> FALSE, res |-> CleanResult]
    ELSE IF repo.head = "branch"
    THEN IF ~repo.has_target \/ ~repo.name_utf8
         THEN [ok |-> FALSE, res |-> CleanResult]
         ELSE IF repo.upstream = "none"
         THEN [ok |-> TRUE,
               res |-> [state |-> repo.state, statuses |-> repo.statuses,
                        commits_ahead |-> 0, commits_behind |-> 0]]
         ELSE IF repo.upstream = "non_utf8" \/ ~repo.remote_ref_ok \/ ~repo.graph_ok
         THEN [ok |-> FALSE, res |-> CleanResult]
         ELSE [ok |-> TRUE,
               res |-> [state |-> repo.state, statuses |-> repo.statuses,
                        commits_ahead |-> repo.graph.ahead,
                        commits_behind |-> repo.graph.behind]]
    ELSE [ok |-> TRUE,
          res |-> [state |-> repo.state, statuses |-> repo.statuses,
                   commits_ahead |-> repo.graph.ahead,
                   commits_behind |-> repo.graph.behind]]

\* check_repo: the check result of the repository, or an error
check_repo(repo) ==
    IF ~repo.statuses_ok THEN [ok |-> FALSE, res |-> CleanResult]
    ELSE IF repo.head = "unborn"
    THEN [ok |-> TRUE,
          res |-> [state |-> repo.state, statuses |-> <<>>,
                   commits_ahead |-> 0, commits_behind |-> 0]]
    ELSE IF ~repo.resolve_ok THEN [ok |-> FALSE, res |-> CleanResult]
    ELSE IF repo.head = "branch"
    THEN IF ~repo.has_target \/ ~repo.name_utf8
         THEN [ok |-> FALSE, res |-> CleanResult]
         ELSE IF repo.upstream = "none"
         THEN [ok |-> TRUE,
               res |-> [state |-> repo.state, statuses |-> repo.statuses,
                        commits_ahead |-> 0, commits_behind |-> 0]]
         ELSE IF repo.upstream = "non_utf8" \/ ~repo.remote_ref_ok \/ ~repo.graph_ok
         THEN [ok |-> FALSE, res |-> CleanResult]
         ELSE [ok |-> TRUE,
               res |-> [state |-> repo.state, statuses |-> repo.statuses,
                        commits_ahead |-> repo.graph.ahead,
                        commits_behind |-> repo.graph.behind]]
    ELSE [ok |-> TRUE,
          res |-> [state |-> repo.state, statuses |-> repo.statuses,
                   commits_ahead |-> 0, commits_behind |-> 0]]

InitRepo ==
    /\ rp_repo \in Repositories
    /\ rp_done = FALSE
    /\ rp_ret = [ok |-> TRUE, res |-> CleanResult]

IdleRepo ==
    /\ rp_repo = [state |-> "Clean", statuses_ok |-> TRUE, statuses |-> <<>>,
                  head |-> "unborn", resolve_ok |-> TRUE, has_target |-> TRUE,
                  name_utf8 |-> TRUE, upstream |-> "none",
                  remote_ref_ok |-> TRUE, graph_ok |-> TRUE,
                  graph |-> [ahead |-> 0, behind |-> 0]]
    /\ rp_done = FALSE
    /\ rp_ret = [ok |-> TRUE, res |-> CleanResult]

\* check_repo is called on the repository
CheckRepo ==
    /\ ~rp_done
    /\ rp_ret' = check_repo(rp_repo)
    /\ rp_done' = TRUE
    /\ UNCHANGED <<rp_repo, descVars, dirVars, scanVars, fixVars, customVars,
                   refreshVars, failingVars, findVars, configVars>>

----------------------------------------------------------------------------
(* git.rs: find_git_repos_recursive *)

\* the paths of the tree under the traversal's root: path 1 is the root and
\* path n lies directly in path n \div 2
Nodes == 1..MaxNodes

\* what a path is: nothing, a file, a directory, a directory that cannot be
\* read, or the top directory of a repository (it holds the metadata
\* directory among its children)
Kinds == {"absent", "file", "dir", "unreadable", "repo"}

Directories == {"dir", "unreadable", "repo"}

Trees ==
    {t \in [Nodes -> Kinds] :
        /\ t[1] # "absent"
        /\ \A n \in Nodes \ {1} : t[n] # "absent" => t[n \div 2] \in Directories}

RECURSIVE AncestorsOf(_)
AncestorsOf(n) == IF n = 1 THEN {} ELSE {n \div 2} \cup AncestorsOf(n \div 2)

\* cur_path.is_dir()
is_dir(tree, n) == tree[n] \in Directories

\* Repository::discover(path): succeeds when the path or a directory above it
\* is a repository; outer says that the root itself lies inside one
discover(tree, outer, n) ==
    outer \/ tree[n] = "repo" \/ \E a \in AncestorsOf(n) : tree[a] = "repo"

\* fs::read_dir(path) collected: the orders in which the directory's entries
\* may be listed, or an error
read_dir_ignoring_errors(tree, n) ==
    LET entries == {c \in Nodes \ {1} : c \div 2 = n /\ tree[c] # "absent"}
    IN  [ok |-> TRUE,
         val |-> IF tree[n] = "unreadable" THEN {<<>>}
                 ELSE {l \in [1..Cardinality(entries) -> entries] :
                           \A i, j \in 1..Len(l) : l[i] = l[j] => i = j}]

read_dir(tree, n) ==
    LET entries == {c \in Nodes \ {1} : c \div 2 = n /\ tree[c] # "absent"}
    IN  IF tree[n] = "unreadable" THEN [ok |-> FALSE, val |-> {<<>>}]
        ELSE [ok |-> TRUE,
              val |-> {l \in [1..Cardinality(entries) -> entries] :
                           \A i, j \in 1..Len(l) : l[i] = l[j] => i = j}]

\* the candidates of a traversal that never descends
new_candidates_none(hit, contents) == <<>>

\* the candidates a directory adds to the queue whether or not discovery
\* succeeded there
new_candidates_always(hit, contents) == contents

\* the candidates a directory adds to the queue: its entries after a miss,
\* nothing after a hit
new_candidates(hit, contents) == IF hit THEN <<>> ELSE contents

InitFind ==
    /\ fd_tree \in Trees
    /\ fd_outer \in BOOLEAN
    /\ fd_pc = "start"
    /\ stack = <<>>
    /\ found_repos = <<>>
    /\ fd_examined = <<>>
    /\ fd_read = {}
    /\ fd_ret = [ok |-> TRUE, val |-> <<>>]

IdleFind ==
    /\ fd_tree = [n \in Nodes |-> IF n = 1 THEN "file" ELSE "absent"]
    /\ fd_outer = FALSE
    /\ fd_pc = "start"
    /\ stack = <<>>
    /\ found_repos = <<>>
    /\ fd_examined = <<>>
    /\ fd_read = {}
    /\ fd_ret = [ok |-> TRUE, val |-> <<>>]

\* the root is pushed
FindStart ==
    /\ fd_pc = "start"
    /\ stack' = <<1>>
    /\ fd_pc' = "loop"
    /\ UNCHANGED <<fd_tree, fd_outer, found_repos, fd_examined, fd_read, fd_ret,
                   descVars, dirVars, scanVars, fixVars, customVars,
                   refreshVars, failingVars, repoVars, configVars>>

\* one iteration of the while loop: the front of the queue is examined
FindStep ==
    /\ fd_pc = "loop"
    /\ stack # <<>>
    /\ LET cur_path == Head(stack)
           hit == discover(fd_tree, fd_outer, cur_path)
           contents == read_dir(fd_tree, cur_path)
       IN  /\ fd_examined' = Append(fd_examined, cur_path)
           /\ IF ~is_dir(fd_tree, cur_path)
              THEN /\ stack' = Tail(stack)
                   /\ UNCHANGED <<found_repos, fd_read, fd_pc, fd_ret>>
              ELSE IF hit
              THEN /\ found_repos' = Append(found_repos, cur_path)
                   /\ \E l \in contents.val :
                          stack' = Tail(stack) \o new_candidates(TRUE, l)
                   /\ UNCHANGED <<fd_read, fd_pc, fd_ret>>
              ELSE /\ fd_read' = fd_read \cup {cur_path}
                   /\ IF ~contents.ok
                      THEN /\ fd_pc' = "done"
                           /\ fd_ret' = [ok |-> FALSE, val |-> <<>>]
                           /\ stack' = Tail(stack)
                      ELSE /\ \E l \in contents.val :
                                  stack' = Tail(stack) \o new_candidates(FALSE, l)
                           /\ UNCHANGED <<fd_pc, fd_ret>>
                   /\ UNCHANGED found_repos
    /\ UNCHANGED <<fd_tree, fd_outer, descVars, dirVars, scanVars, fixVars,
                   customVars, refreshVars, failingVars, repoVars, configVars>>

\* the queue is empty: the repositories found are returned
FindReturn ==
    /\ fd_pc = "loop"
    /\ stack = <<>>
    /\ fd_pc' = "done"
    /\ fd_ret' = [ok |-> TRUE, val |-> found_repos]
    /\ UNCHANGED <<fd_tree, fd_outer, stack, found_repos, fd_examined, fd_read,
                   descVars, dirVars, scanVars, fixVars, customVars,
                   refreshVars, failingVars, repoVars, configVars>>

----------------------------------------------------------------------------
(* command.rs: handle_add, handle_del, handle_add_custom, handle_del_custom *)

\* a file of the file system: "/w/f"
P_file == <<Root, "w", "f">>

\* fs::canonicalize from directory cur: the absolute path of something that
\* exists, or an error
canonicalize(cur, p) ==
    LET joined == IF IsAbsolute(p) THEN p ELSE cur \o p
        target == SelectSeq(joined, LAMBDA c : c # ".")
    IN  IF target \in ExistingDirs \cup {P_file} THEN Ok(target) ELSE Err(p)

\* the names typed at the name prompt or given as NAME, in the key order of
\* the BTreeMap; the last one stands for the default, the current time
NameOrder == <<"a", "b", "now">>

Names == {NameOrder[i] : i \in 1..Len(NameOrder)}

\* the DIR arguments of add-custom
AddDirs == {P_abs, P_home, P_undef, P_gone, P_file}

\* custom lists in which no two entries share a name
UniqueNames(l) == \A i, j \in 1..Len(l) : l[i].name = l[j].name => i = j

StoredEntries ==
    [name : Names, path : {<<Root, "w", "a">>, <<Root, "home", "p">>},
     check_cmd : {"true"}, refresh_cmd : {"true"}]

\* the name prompt that takes whatever is typed
name_is_free_unchecked(custom, n) == TRUE

\* the test that ends the name prompt loop: no entry has the name
name_is_free(custom, n) == \A i \in 1..Len(custom) : custom[i].name # n

\* save_cfg_from_matches: the configuration is written, or the write fails
save_cfg_from_matches(custom, written) ==
    IF written THEN Ok(custom) ELSE Err(<<>>)

\* name2entry.keys(): the names of the entries in ascending order
SortedNames(custom) ==
    SelectSeq(NameOrder, LAMBDA n : \E i \in 1..Len(custom) : custom[i].name = n)

\* the DIR arguments of add and del: the default ".", a relative path, an
\* absolute one, home and environment syntax, an unset variable, a file and
\* a directory outside every repository
P_dot == <<".">>
P_env == <<"$HOME", "p">>
P_plain == <<Root, "home">>
DirArgs == {P_dot, P_rel, P_abs, P_home, P_env, P_undef, P_file, P_plain}

\* the directories at which Repository::discover succeeds
RepoDirs ==
    {<<Root, "w">>, <<Root, "w", "a">>, <<Root, "w", "r">>,
     <<Root, "w", "r", "r">>, <<Root, "home", "p">>}

\* what the handler does with the answer to its confirmation prompt, a
\* declined prompt being taken for a confirmed one
after_confirmation_forced(answer) ==
    IF answer = "err" THEN "err" ELSE "save"

\* what the handler does with the answer to its confirmation prompt
after_confirmation(answer) ==
    IF answer = "err" THEN "err"
    ELSE IF answer = "yes" THEN "save"
    ELSE "bail"

\* cfg.git.remove(dir): the set without the string, and whether it was there
git_remove(git, d) == [removed |-> d \in git, git |-> git \ {d}]

\* the process's exit status: main returns the handler's result
exit_status(result) == IF result = "Err" THEN 1 ELSE EXIT_SUCCESS

InitConfig ==
    /\ disk_custom \in {l \in SeqsUpTo(StoredEntries, MaxCustom) : UniqueNames(l)}
    /\ disk_git \in SUBSET {<<Root, "w", "a">>, <<Root, "home", "p">>}
    /\ disk0 = disk_custom
    /\ git0 = disk_git
    /\ mem_custom = disk_custom
    /\ mem_git = disk_git
    /\ cc_op = "none"
    /\ cc_pc = "idle"
    /\ cc_dir = <<>>
    /\ cc_path = <<>>
    /\ cc_name = ""
    /\ cc_prompts = 0
    /\ cc_answer = "none"
    /\ cc_saved = "none"
    /\ cc_no_skip = FALSE
    /\ cc_ret = "none"

IdleConfig ==
    /\ disk_custom = <<>>
    /\ disk_git = {}
    /\ disk0 = <<>>
    /\ git0 = {}
    /\ mem_custom = <<>>
    /\ mem_git = {}
    /\ cc_op = "none"
    /\ cc_pc = "idle"
    /\ cc_dir = <<>>
    /\ cc_path = <<>>
    /\ cc_name = ""
    /\ cc_prompts = 0
    /\ cc_answer = "none"
    /\ cc_saved = "none"
    /\ cc_no_skip = FALSE
    /\ cc_ret = "none"

\* the handler returns an error; nothing is written
ConfigErr ==
    /\ cc_pc' = "done"
    /\ cc_ret' = "Err"

\* the variables of the other parts
NotConfig ==
    <<descVars, dirVars, scanVars, fixVars, customVars, refreshVars,
      failingVars, repoVars, findVars>>

\* main up to the handler: the flags are read and the configuration loaded
LoadCfg(op) ==
    /\ cc_pc = "idle"
    /\ cc_op' = op
    /\ cc_no_skip' \in BOOLEAN
    /\ disk0' = disk_custom
    /\ git0' = disk_git
    /\ cc_prompts' = 0
    /\ cc_answer' = "none"
    /\ cc_saved' = "none"
    /\ UNCHANGED <<disk_custom, disk_git, NotConfig>>

\* save_cfg_from_matches(main_matches, cfg)?, then Ok(())
SaveAndReturn(git, custom) ==
    \E written \in BOOLEAN :
        LET saved == save_cfg_from_matches([git |-> git, custom |-> custom],
                                           written)
        IN  /\ cc_pc' = "done"
            /\ IF saved.ok
               THEN /\ disk_git' = saved.val.git
                    /\ disk_custom' = saved.val.custom
                    /\ cc_saved' = "written"
                    /\ cc_ret' = "Ok"
               ELSE /\ UNCHANGED <<disk_git, disk_custom>>
                    /\ cc_saved' = "failed"
                    /\ cc_ret' = "Err"

\* add DIR: DIR is expanded and canonicalised, must be a directory in a
\* repository, and its canonical path is inserted and saved
HandleAdd ==
    /\ cc_pc = "idle"
    /\ cc_op' = "add"
    /\ cc_no_skip' \in BOOLEAN
    /\ disk0' = disk_custom
    /\ git0' = disk_git
    /\ cc_prompts' = 0
    /\ cc_answer' = "none"
    /\ cc_name' = ""
    /\ mem_custom' = disk_custom
    /\ \E d \in DirArgs :
         LET expanded == shellexpand_full(d)
             p == canonicalize(StartDir, expanded.val)
         IN  /\ cc_dir' = d
             /\ IF ~expanded.ok \/ ~p.ok
                THEN /\ ConfigErr
                     /\ cc_path' = <<>>
                     /\ mem_git' = disk_git
                     /\ cc_saved' = "none"
                     /\ UNCHANGED <<disk_git, disk_custom>>
                ELSE IF p.val \in ExistingDirs /\ p.val \in RepoDirs
                THEN /\ cc_path' = p.val
                     /\ mem_git' = disk_git \cup {p.val}
                     /\ SaveAndReturn(disk_git \cup {p.val}, disk_custom)
                ELSE /\ ConfigErr
                     /\ cc_path' = p.val
                     /\ mem_git' = disk_git
                     /\ cc_saved' = "none"
                     /\ UNCHANGED <<disk_git, disk_custom>>
    /\ UNCHANGED NotConfig

\* del DIR, up to the confirmation prompt: the string DIR is removed from the
\* set in memory, or the handler bails out when it is not there
DelStart ==
    /\ LoadCfg("del")
    /\ cc_name' = ""
    /\ cc_path' = <<>>
    /\ mem_custom' = disk_custom
    /\ \E d \in DirArgs \cup RepoDirs :
         LET r == git_remove(disk_git, d)
         IN  /\ cc_dir' = d
             /\ mem_git' = r.git
             /\ IF ~r.removed THEN ConfigErr
                ELSE cc_pc' = "confirm" /\ cc_ret' = "none"

\* the add has returned Ok and the process has exited; del is run with the
\* same DIR argument, up to the confirmation prompt (git0 stays the set
\* before the add)
DelAfterAdd ==
    /\ cc_pc = "done"
    /\ cc_op = "add"
    /\ cc_ret = "Ok"
    /\ cc_op' = "add_del"
    /\ cc_answer' = "none"
    /\ cc_saved' = "none"
    /\ LET r == git_remove(disk_git, cc_dir)
       IN  /\ mem_git' = r.git
           /\ IF ~r.removed THEN ConfigErr
              ELSE cc_pc' = "confirm" /\ cc_ret' = "none"
    /\ UNCHANGED <<disk_custom, disk_git, disk0, git0, mem_custom, cc_dir,
                   cc_path, cc_name, cc_prompts, cc_no_skip, NotConfig>>

\* add-custom DIR, up to the name prompt: the configuration is loaded, DIR is
\* expanded and canonicalised and must be a directory
AddCustomStart ==
    /\ LoadCfg("add_custom")
    /\ Len(disk_custom) < MaxCustom
    /\ mem_custom' = disk_custom
    /\ mem_git' = disk_git
    /\ cc_name' = ""
    /\ \E d \in AddDirs :
         LET expanded == shellexpand_full(d)
             canonical == canonicalize(StartDir, expanded.val)
         IN  /\ cc_dir' = d
             /\ IF ~expanded.ok \/ ~canonical.ok \/ canonical.val \notin ExistingDirs
                THEN ConfigErr /\ cc_path' = <<>>
                ELSE /\ cc_path' = canonical.val
                     /\ cc_pc' = "name"
                     /\ cc_ret' = "none"

\* one pass of the name prompt loop: a name is typed (or the prompt fails);
\* the loop ends when no entry has that name
AddCustomName ==
    /\ cc_pc = "name"
    /\ cc_prompts' = cc_prompts + 1
    /\ \/ ConfigErr /\ UNCHANGED cc_name
       \/ \E n \in Names :
            /\ cc_name' = n
            /\ cc_ret' = "none"
            /\ IF name_is_free(mem_custom, n)
               THEN cc_pc' = "commands"
               ELSE cc_prompts + 1 < MaxPrompts /\ cc_pc' = "name"
    /\ UNCHANGED <<disk_custom, disk_git, disk0, git0, mem_custom, mem_git,
                   cc_op, cc_dir, cc_path, cc_answer, cc_saved, cc_no_skip,
                   NotConfig>>

\* the two command prompts, the push and the save
AddCustomFinish ==
    /\ cc_pc = "commands"
    /\ \/ ConfigErr /\ UNCHANGED <<mem_custom, disk_custom, disk_git, cc_saved>>
       \/ LET pushed == Append(mem_custom,
                            [name |-> cc_name, path |-> cc_path,
                             check_cmd |-> "true", refresh_cmd |-> "true"])
          IN  /\ mem_custom' = pushed
              /\ SaveAndReturn(mem_git, pushed)
    /\ UNCHANGED <<disk0, git0, mem_git, cc_op, cc_dir, cc_path, cc_name,
                   cc_prompts, cc_answer, cc_no_skip, NotConfig>>

\* del-custom [NAME], up to the confirmation prompt: the configuration is
\* loaded, the name is taken from NAME or chosen from the sorted names, and
\* the entries with that name are dropped from the list in memory
DelCustomStart ==
    /\ LoadCfg("del_custom")
    /\ cc_path' = <<>>
    /\ cc_dir' = <<>>
    /\ mem_git' = disk_git
    /\ IF disk_custom = <<>>
       THEN ConfigErr /\ mem_custom' = disk_custom /\ cc_name' = ""
       ELSE \/ \E value \in Names :
                 /\ cc_name' = value
                 /\ IF value \notin {disk_custom[i].name : i \in 1..Len(disk_custom)}
                    THEN ConfigErr /\ mem_custom' = disk_custom
                    ELSE /\ mem_custom' = SelectSeq(disk_custom,
                                              LAMBDA entry : entry.name # value)
                         /\ cc_pc' = "confirm"
                         /\ cc_ret' = "none"
            \/ \E i \in 1..Len(SortedNames(disk_custom)) :
                 /\ cc_name' = SortedNames(disk_custom)[i]
                 /\ mem_custom' = SelectSeq(disk_custom,
                        LAMBDA entry : entry.name # SortedNames(disk_custom)[i])
                 /\ cc_pc' = "confirm"
                 /\ cc_ret' = "none"
            \/ ConfigErr /\ mem_custom' = disk_custom /\ cc_name' = ""

\* the confirmation prompt: on yes the configuration is saved, on no the
\* handler bails out; the prompt itself may fail
Confirm ==
    /\ cc_pc = "confirm"
    /\ \E answer \in {"yes", "no", "err"} :
         /\ cc_answer' = answer
         /\ IF after_confirmation(answer) = "save"
            THEN SaveAndReturn(mem_git, mem_custom)
            ELSE ConfigErr /\ UNCHANGED <<disk_custom, disk_git, cc_saved>>
    /\ UNCHANGED <<disk0, git0, mem_custom, mem_git, cc_op, cc_dir, cc_path,
                   cc_name, cc_prompts, cc_no_skip, NotConfig>>

\* the confirmation prompt of del
DelConfirm ==
    /\ cc_op \in {"del", "add_del"}
    /\ Confirm

\* the confirmation prompt of del-custom
DelCustomConfirm ==
    /\ cc_op = "del_custom"
    /\ Confirm

\* the process exits; the next command starts from the persisted
\* configuration
ConfigExit ==
    /\ cc_pc = "done"
    /\ cc_pc' = "idle"
    /\ cc_op' = "none"
    /\ mem_custom' = disk_custom
    /\ mem_git' = disk_git
    /\ disk0' = disk_custom
    /\ git0' = disk_git
    /\ cc_dir' = <<>>
    /\ cc_path' = <<>>
    /\ cc_name' = ""
    /\ cc_prompts' = 0
    /\ cc_answer' = "none"
    /\ cc_saved' = "none"
    /\ cc_no_skip' = FALSE
    /\ cc_ret' = "none"
    /\ UNCHANGED <<disk_custom, disk_git, NotConfig>>

----------------------------------------------------------------------------
(* Specifications *)

IdleAux == IdleCustom /\ IdleRefresh /\ IdleFailing /\ IdleRepo /\ IdleFind
    /\ IdleConfig

NextDescribe == Describe \/ NewCheckResult

DescribeInit == InitDescribe /\ IdleDirs /\ IdleScan /\ IdleFix /\ IdleAux

SpecDescribe == DescribeInit /\ [][NextDescribe]_vars

NextDirs == ResolveDirs \/ NewDirs

DirsInit == IdleDescribe /\ InitDirs /\ IdleScan /\ IdleFix /\ IdleAux

SpecDirs == DirsInit /\ [][NextDirs]_vars

ScanInit == IdleDescribe /\ IdleDirs /\ InitScan /\ IdleFix /\ IdleAux

NextScan == Scan

SpecScan == ScanInit /\ [][NextScan]_vars

Init == IdleDescribe /\ IdleDirs /\ IdleScan /\ InitFix /\ IdleAux

Next ==
    \/ HandleFixStart
    \/ FixAttempt
    \/ FixAnswer
    \/ FixLeave
    \/ HandleFixCustomStart
    \/ FixCustomEnter
    \/ FixCustomAttempt
    \/ FixCustomAnswer
    \/ FixCustomLeave
    \/ NextBatch

Spec == Init /\ [][Next]_vars

\* every command, check and prompt returns: a step of the handler that can
\* be taken is taken
SpecFair == Init /\ [][Next]_vars /\ WF_vars(Next)

\* the first four parts at rest
IdleCore == IdleDescribe /\ IdleDirs /\ IdleScan /\ IdleFix

CustomInit == IdleCore /\ InitCustom /\ IdleRefresh /\ IdleFailing /\ IdleRepo /\ IdleFind
    /\ IdleConfig

NextCustom == AdapterCheck \/ AdapterRefresh \/ AdapterNext

SpecCustom == CustomInit /\ [][NextCustom]_vars

RefreshInit == IdleCore /\ IdleCustom /\ InitRefresh /\ IdleFailing /\ IdleRepo /\ IdleFind
    /\ IdleConfig

NextRefresh == HandleRefresh

SpecRefresh == RefreshInit /\ [][NextRefresh]_vars

FailingInit == IdleCore /\ IdleCustom /\ IdleRefresh /\ InitFailing /\ IdleRepo /\ IdleFind
    /\ IdleConfig

NextFailing == FailingDirs \/ FailingDirsMain \/ FailingCustom

SpecFailing == FailingInit /\ [][NextFailing]_vars

RepoInit == IdleCore /\ IdleCustom /\ IdleRefresh /\ IdleFailing /\ InitRepo /\ IdleFind
    /\ IdleConfig

NextRepo == CheckRepo

SpecRepo == RepoInit /\ [][NextRepo]_vars

FindInit ==
    IdleCore /\ IdleCustom /\ IdleRefresh /\ IdleFailing /\ IdleRepo /\ InitFind
    /\ IdleConfig

NextFind == FindStart \/ FindStep \/ FindReturn

SpecFind == FindInit /\ [][NextFind]_vars

\* the traversal is sequential code that keeps running: a step that can be
\* taken is taken
SpecFindFair == FindInit /\ [][NextFind]_vars /\ WF_vars(NextFind)

ConfigInit ==
    IdleCore /\ IdleCustom /\ IdleRefresh /\ IdleFailing /\ IdleRepo /\ IdleFind
    /\ InitConfig

NextConfig ==
    \/ HandleAdd \/ DelStart \/ DelAfterAdd \/ DelConfirm
    \/ AddCustomStart \/ AddCustomName \/ AddCustomFinish
    \/ DelCustomStart \/ DelCustomConfirm \/ ConfigExit

SpecConfig == ConfigInit /\ [][NextConfig]_vars

----------------------------------------------------------------------------
(* Claims about the check result (SpecDescribe) *)

\* how many of the four signals of r are not clean
NonCleanSignals(r) ==
    (IF r.state # "Clean" THEN 1 ELSE 0) + (IF Len(r.statuses) > 0 THEN 1 ELSE 0)
        + (IF r.commits_ahead > 0 THEN 1 ELSE 0)
        + (IF r.commits_behind > 0 THEN 1 ELSE 0)

\* C1: is_all_good() is true exactly when the state is Clean and the
\* uncommitted count, commits_ahead and commits_behind are all 0; any single
\* non-clean signal makes it false.
C1_AllGoodIffEverySignalClean ==
    described =>
        /\ all_good <=> (/\ chk.state = "Clean"
                         /\ Len(chk.statuses) = 0
                         /\ chk.commits_ahead = 0
                         /\ chk.commits_behind = 0)
        /\ NonCleanSignals(chk) >= 1 => ~all_good

\* a result whose only non-clean signal is commits_behind was evaluated
C1_Witness ==
    /\ described
    /\ NonCleanSignals(chk) = 1
    /\ chk.commits_behind > 0
    /\ ~all_good

\* C2: describe() is exactly <<"all good">> if and only if is_all_good();
\* otherwise it is non-empty and does not contain "all good".
C2_AllGoodFactIffAllGood ==
    described =>
        /\ facts = <<"all good">> <=> all_good
        /\ ~all_good => /\ facts # <<>>
                        /\ \A i \in 1..Len(facts) : facts[i] # "all good"

\* a clean result was described
C2_Witness ==
    /\ described
    /\ all_good
    /\ facts = <<"all good">>

\* the four facts of r in display order, each with whether its signal is set
FactCandidates(r) ==
    <<[on |-> r.state # "Clean", text |-> "unclean state " \o r.state],
      [on |-> Len(r.statuses) > 0,
       text |-> ToString(Len(r.statuses)) \o " uncommitted change(s)"],
      [on |-> r.commits_ahead > 0,
       text |-> ToString(r.commits_ahead) \o " commit(s) ahead"],
      [on |-> r.commits_behind > 0,
       text |-> ToString(r.commits_behind) \o " commit(s) behind"]>>

\* C3: for a dirty result describe() lists one fact per non-clean signal and
\* none for a clean one, in the order state, uncommitted, ahead, behind, so
\* its length is the number of non-clean signals (1 to 4).
C3_OneFactPerSignalInOrder ==
    (described /\ ~all_good) =>
        LET listed == SelectSeq(FactCandidates(chk), LAMBDA c : c.on)
        IN  /\ facts = [i \in 1..Len(listed) |-> listed[i].text]
            /\ Len(facts) = NonCleanSignals(chk)
            /\ Len(facts) \in 1..4

\* a result with all four signals set was described
C3_Witness ==
    /\ described
    /\ Len(facts) = 4
    /\ NonCleanSignals(chk) = 4

----------------------------------------------------------------------------
(* Claims about the directory resolver (SpecDirs) *)

Expandable(p) == shellexpand_full(p).ok

ExpansionsOf(paths) == [i \in 1..Len(paths) |-> shellexpand_full(paths[i]).val]

\* C5: with no_skip false get_expanded_dirs returns Ok with exactly the
\* expandable inputs, expanded, in input order; with no_skip true it returns
\* the error of the first unexpandable input and no list, and all inputs
\* expanded in order when none fails.
C5_SkipOrAbortOnExpansion ==
    rdone =>
        LET failures == {i \in 1..Len(rin) : ~Expandable(rin[i])}
        IN  /\ ~rno_skip =>
                  /\ rret.ok
                  /\ rret.val = ExpansionsOf(SelectSeq(rin, Expandable))
            /\ (rno_skip /\ failures # {}) =>
                  /\ ~rret.ok
                  /\ rret.val = <<>>
                  /\ \E i \in failures :
                        /\ \A j \in failures : i <= j
                        /\ rret.err = rin[i]
            /\ (rno_skip /\ failures = {}) =>
                  /\ rret.ok
                  /\ rret.val = ExpansionsOf(rin)

\* three inputs, the middle one unexpandable, resolved in skip mode to the
\* two others
C5_Witness ==
    /\ rdone
    /\ ~rno_skip
    /\ Len(rin) = 3
    /\ Expandable(rin[1]) /\ ~Expandable(rin[2]) /\ Expandable(rin[3])
    /\ rret.ok
    /\ rret.val = <<shellexpand_full(rin[1]).val, shellexpand_full(rin[3]).val>>

----------------------------------------------------------------------------
(* Claims about the top-level scan (SpecScan) *)

Evaluable(d) == shellexpand_full(d).ok /\ soutcome[d].ok

FoundDirty(d) == Evaluable(d) /\ ~is_all_good(soutcome[d].res)

\* C4: the scan exits non-zero if and only if an entry was found dirty; an
\* entry that could not be evaluated makes the exit status non-zero only in
\* no-skip mode and is omitted in skip mode.
C4_ExitStatusHonoursNoSkip ==
    spc = "exited" =>
        (sexit # 0 <=> \/ \E d \in sgit : FoundDirty(d)
                       \/ sno_skip /\ \E d \in sgit : ~Evaluable(d))

----------------------------------------------------------------------------
(* Claims about the fix/retry loops (Spec) *)

\* size of the failing list of the running batch
Total ==
    IF handler = "fix" THEN Len(failing_expanded_dirs)
    ELSE Len(failing_custom_entries)

\* the entry at position i has had its leaving line printed (it is Resolved)
Left(i) == \E k \in 1..Len(out) : out[k].line = "Leaving" /\ out[k].i = i

PromptsShown(i) ==
    Len(SelectSeq(out, LAMBDA l : l.line = "Retry?" /\ l.i = i))

DirtyRuns(i) ==
    Len(SelectSeq(run_log, LAMBDA r : r.i = i /\ r.verdict = "dirty"))

Accepted(i) ==
    Len(SelectSeq(answers, LAMBDA a : a.i = i /\ a.ans = "yes"))

\* C6: when the re-evaluation after an attempt reports all good (or check()
\* returns true) the entry is left at once and no retry prompt is shown for
\* that attempt; a retry prompt is shown only after a dirty re-evaluation.
C6_CleanRecheckLeavesWithoutPrompt ==
    /\ verdict = "good" => pc = "leave"
    /\ pc = "prompt" => verdict = "dirty"
    /\ \A i \in 1..Total : PromptsShown(i) = DirtyRuns(i)

\* a retried entry was found clean by the re-evaluation and is being left
C6_Witness ==
    /\ pc = "leave"
    /\ verdict = "good"
    /\ Runs(idx + 1) = 2
    /\ PromptsShown(idx + 1) = 1

\* C7: the remediation command is run 1 + (accepted retry prompts) times for
\* every entry that was left, and for the entry in progress once its attempt
\* is over (at the top of the loop the accepted retry is still to run); a
\* declined prompt leaves the entry; once the handler has returned Ok every
\* entry was left and the configuration is as it was.
C7_RunsAreOnePlusAcceptedRetries ==
    /\ \A i \in 1..Total : Left(i) => Runs(i) = 1 + Accepted(i)
    /\ pc \in {"prompt", "leave"} => Runs(idx + 1) = 1 + Accepted(idx + 1)
    /\ (pc = "loop" /\ Total > 0) => Runs(idx + 1) = Accepted(idx + 1)
    /\ \A k \in 1..Len(answers) :
          answers[k].ans = "no" =>
              \/ Left(answers[k].i)
              \/ pc = "leave" /\ idx + 1 = answers[k].i
    /\ (pc = "done" /\ ret = "Ok") =>
          /\ cfg = cfg0
          /\ \A i \in 1..Total : Left(i)

\* a single entry stayed dirty, its first retry prompt was declined, and
\* handle_fix returned Ok after exactly one attempt
C7_Witness ==
    /\ handler = "fix"
    /\ pc = "done"
    /\ ret = "Ok"
    /\ Total = 1
    /\ answers = <<[i |-> 1, ans |-> "no"]>>
    /\ Runs(1) = 1
    /\ Left(1)
    /\ cfg = cfg0

\* C8: after an attempt, whatever the command's exit status, the entry is
\* re-evaluated and the loop leaves on a clean verdict, prompts on a dirty one
\* and returns an error only when the re-evaluation itself failed; the step
\* after a prompt follows the answer alone.
C8_ExitStatusNeverSteersTheLoop ==
    [][/\ (pc = "loop" /\ Len(run_log') = Len(run_log) + 1) =>
            LET r == run_log'[Len(run_log')]
            IN  /\ r.verdict = "good" => (pc' = "leave" /\ ret' = ret)
                /\ r.verdict = "dirty" => (pc' = "prompt" /\ ret' = ret)
                /\ r.verdict = "err" => (pc' = "done" /\ ret' = "Err")
       /\ (pc = "prompt" /\ Len(answers') = Len(answers) + 1) =>
            LET a == answers'[Len(answers')]
            IN  /\ a.ans = "yes" => (pc' = "loop" /\ ret' = ret)
                /\ a.ans = "no" => (pc' = "leave" /\ ret' = ret)]_vars

\* an attempt whose command exited non-zero was re-evaluated clean and the
\* entry is being left
C8_Witness ==
    /\ run_log # <<>>
    /\ run_log[Len(run_log)].exit # EXIT_SUCCESS
    /\ run_log[Len(run_log)].verdict = "good"
    /\ command_result # EXIT_SUCCESS
    /\ pc = "leave"
    /\ ret = "none"

\* the configured (expanded) path of the entry at position i
EntryPath(i) ==
    IF handler = "fix" THEN failing_expanded_dirs[i]
    ELSE shellexpand_full(failing_custom_entries[i].path).val

\* path p taken from directory base
ResolvedAgainst(base, p) == IF IsAbsolute(p) THEN p ELSE base \o p

\* C9: at every invocation of the remediation command the current directory
\* is the entry's resolved path, a relative path being taken from the working
\* directory saved at the start of the batch.
C9_CommandRunsInEntryDirectory ==
    \A k \in 1..Len(run_log) :
        run_log[k].at = ResolvedAgainst(cwd0, EntryPath(run_log[k].i))

----------------------------------------------------------------------------
(* Custom check adapter *)

\* the entry's path expands and the process can change into it from cur
PathResolves(entry, cur) ==
    LET expanded_path == shellexpand_full(entry.path)
    IN  expanded_path.ok /\ set_current_dir(cur, expanded_path.val).ok

\* the command of the operation the adapter ran
CommandOf(entry, op) ==
    IF op = "check" THEN entry.check_cmd ELSE entry.refresh_cmd

\* C11: after check(entry) and after refresh(entry), on every exit path, the
\* process's current directory equals the current directory before the call.
C11_CwdRestoredOnEveryExitPath ==
    ce_done => ce_cwd_after = ce_cwd

\* C12 as stated: check gives Ok(true) on exit status 0 and Ok(false) on a
\* non-zero one, refresh gives Ok whatever the status, and an error is
\* returned only when the path cannot be resolved or the working directory
\* cannot be changed.
C12_ErrorOnlyFromPathOrCwd ==
    ce_done =>
        /\ ~ce_ret.ok => ~PathResolves(ce_entry, ce_cwd)
        /\ (ce_ret.ok /\ ce_op = "check") =>
               ce_ret.res = (ce_status = EXIT_SUCCESS)

\* C12: an error is returned exactly when the path cannot be resolved, the
\* working directory cannot be changed, or the command string cannot be
\* built; otherwise check gives Ok(true) on exit status 0 and Ok(false) on a
\* non-zero one, and refresh gives Ok whatever the status.
C12_VerdictFromExitStatus ==
    ce_done =>
        /\ ce_ret.ok <=>
               /\ PathResolves(ce_entry, ce_cwd)
               /\ CommandOf(ce_entry, ce_op) # NulCommand
        /\ (ce_ret.ok /\ ce_op = "check") =>
               ce_ret.res = (ce_status = EXIT_SUCCESS)

C12_Witness ==
    /\ ce_done
    /\ ce_op = "check"
    /\ ce_status # EXIT_SUCCESS
    /\ ce_ret = [ok |-> TRUE, res |-> FALSE]

----------------------------------------------------------------------------
(* Refresh batch *)

\* no command of the configuration holds a NUL byte
CommandsBuildable(c) ==
    /\ c.refresh_cmd # NulCommand
    /\ \A i \in 1..Len(c.custom) : c.custom[i].refresh_cmd # NulCommand

\* the repository paths whose expansion succeeds and opens as a repository
HealthyDirs(c, repos) ==
    SelectSeq(BTreeSetIter(c.git),
              LAMBDA p : shellexpand_full(p).ok /\ shellexpand_full(p).val \in repos)

\* the custom entries whose path resolves from directory cur
HealthyCustom(c, cur) == SelectSeq(c.custom, LAMBDA e : PathResolves(e, cur))

\* the entries a refresh that omits every failing entry runs its command in
ExpectedRefreshed(c, repos, cur) ==
    [i \in 1..Len(HealthyDirs(c, repos)) |->
        <<"git", shellexpand_full(HealthyDirs(c, repos)[i]).val>>]
    \o [i \in 1..Len(HealthyCustom(c, cur)) |->
        <<"custom", HealthyCustom(c, cur)[i].name>>]

\* the entries whose refresh command ran
RefreshedEntries == [i \in 1..Len(hr_refreshed) |->
                        <<hr_refreshed[i].kind, hr_refreshed[i].id>>]

\* some entry of the configuration fails to expand, open or resolve
SomeEntryFails(c, repos, cur) ==
    Len(ExpectedRefreshed(c, repos, cur)) < Cardinality(c.git) + Len(c.custom)

\* C13: with no_skip=false handle_refresh never returns an error because an
\* entry failed (expansion, repository open, custom path resolution) and
\* refreshes every remaining repository and custom entry; with no_skip=true
\* such a failure aborts the batch with an error.
C13_RefreshHonoursNoSkip ==
    (hr_done /\ CommandsBuildable(hr_cfg)) =>
        IF hr_no_skip
        THEN (hr_ret = "Err") <=> SomeEntryFails(hr_cfg, hr_repos, hr_cwd)
        ELSE /\ hr_ret = "Ok"
             /\ RefreshedEntries = ExpectedRefreshed(hr_cfg, hr_repos, hr_cwd)

----------------------------------------------------------------------------
(* Failing lists *)

\* the input positions whose evaluation errors, and those found dirty
ErrorPositions ==
    IF fl_input = "dirs"
    THEN {i \in 1..Len(fl_dirs) :
            \/ ~shellexpand_full(fl_dirs[i]).ok
            \/ ~fl_world[shellexpand_full(fl_dirs[i]).val].ok}
    ELSE {i \in 1..Len(fl_entries) :
            ~Evaluations(fl_entries, fl_statuses, StartDir)[i].ok}

DirtyPositions ==
    IF fl_input = "dirs"
    THEN {i \in 1..Len(fl_dirs) :
            /\ i \notin ErrorPositions
            /\ ~is_all_good(fl_world[shellexpand_full(fl_dirs[i]).val].res)}
    ELSE {i \in 1..Len(fl_entries) :
            /\ i \notin ErrorPositions
            /\ ~Evaluations(fl_entries, fl_statuses, StartDir)[i].res}

\* the items at the positions of P, in input order
RECURSIVE ItemsAt(_, _, _)
ItemsAt(items, P, i) ==
    IF i > Len(items) THEN <<>>
    ELSE (IF i \in P THEN <<items[i]>> ELSE <<>>) \o ItemsAt(items, P, i + 1)

\* the list the claim describes: the dirty inputs (expanded, for directories)
DirtyList ==
    IF fl_input = "dirs"
    THEN ItemsAt([i \in 1..Len(fl_dirs) |-> shellexpand_full(fl_dirs[i]).val],
                 DirtyPositions, 1)
    ELSE ItemsAt(fl_entries, DirtyPositions, 1)

\* the directory the first error met is about: dir.rs expands every
\* directory before it checks any, main.rs expands and checks one by one
FirstError ==
    LET Unexpandable == {i \in ErrorPositions : ~shellexpand_full(fl_dirs[i]).ok}
        Min(P) == CHOOSE i \in P : \A j \in P : i <= j
        ErrorAt(i) == IF i \in Unexpandable THEN fl_dirs[i]
                      ELSE shellexpand_full(fl_dirs[i]).val
    IN  IF fl_fn = "get_failing_expanded_dirs" /\ Unexpandable # {}
        THEN ErrorAt(Min(Unexpandable))
        ELSE ErrorAt(Min(ErrorPositions))

----------------------------------------------------------------------------
(* Fix/retry loop: visiting order *)

\* the failing list of the running handler
FailingList ==
    IF handler = "fix" THEN failing_expanded_dirs ELSE failing_custom_entries

\* the identities of its entries: the directory, or the custom entry's name
FailingIds ==
    IF handler = "fix" THEN failing_expanded_dirs
    ELSE [i \in 1..Len(failing_custom_entries) |->
             <<failing_custom_entries[i].name>>]

\* the entries the initial scan found dirty, in scan order
ScannedDirty ==
    ItemsAt([i \in 1..Len(initial_scan) |-> initial_scan[i].id],
            {i \in 1..Len(initial_scan) : initial_scan[i].found = "dirty"}, 1)

\* the rank of the configured path that expands to directory d
RankOf(d) ==
    CHOOSE k \in 1..Len(PathOrder) :
        shellexpand_full(PathOrder[k]).ok /\ shellexpand_full(PathOrder[k]).val = d

\* the progress lines of the entries: "Fixing" and "Leaving"
EntryLines == SelectSeq(out, LAMBDA l : l.line \in {"Fixing", "Leaving"})

\* C15: the loop visits exactly the entries of the failing list computed at
\* the start, which holds the entries the initial scan found dirty (never a
\* clean or skipped one), each once and in list order, for repositories the
\* lexicographic order of the configured set; an entry is left before the
\* next one is run and no earlier entry is revisited.
C15_VisitsFailingListInOrder ==
    handler # "none" =>
        /\ (pc \in {"enter", "loop", "prompt", "leave"} \/ run_log # <<>>) =>
               FailingIds = ScannedDirty
        /\ handler = "fix" =>
               \A a, b \in 1..Len(failing_expanded_dirs) :
                   a < b => RankOf(failing_expanded_dirs[a])
                                < RankOf(failing_expanded_dirs[b])
        /\ \A k \in 1..Len(run_log) :
               /\ run_log[k].i \in 1..Len(FailingList)
               /\ run_log[k].i <= idx + 1
               /\ k = 1 => run_log[k].i = 1
               /\ k > 1 => run_log[k].i \in {run_log[k-1].i, run_log[k-1].i + 1}
        /\ \A k \in 1..Len(EntryLines) :
               LET l == EntryLines[k]
               IN  /\ (l.line = "Fixing" /\ l.i > 1) =>
                          \E j \in 1..(k - 1) :
                              EntryLines[j].line = "Leaving" /\ EntryLines[j].i = l.i - 1
                   /\ l.line = "Leaving" =>
                          \A j \in (k + 1)..Len(EntryLines) : EntryLines[j].i > l.i
        /\ (pc = "done" /\ ret = "Ok") =>
               {run_log[k].i : k \in 1..Len(run_log)} = 1..Len(FailingList)

C15_Witness ==
    /\ handler = "fix"
    /\ pc = "done"
    /\ ret = "Ok"
    /\ Len(failing_expanded_dirs) = 2
    /\ Len(run_log) = 3
    /\ run_log[2].i = 1
    /\ run_log[3].i = 2

----------------------------------------------------------------------------
(* Fix/retry loop: progress lines *)

\* how many lines of a kind were printed for position i
Printed(kind, i) == Len(SelectSeq(out, LAMBDA l : l.line = kind /\ l.i = i))

\* C16: in a batch that completes, the trace of the entry at position i of
\* total is one "Fixing i/total" line per remediation attempt followed by
\* exactly one "Leaving i/total" line, whether it left clean or declined;
\* i runs 1..total without gaps and every line shows the same total, the
\* size of the initial failing list.
C16_ProgressLinesMatchAttempts ==
    handler # "none" =>
        /\ \A k \in 1..Len(out) :
               /\ out[k].total = Len(FailingList)
               /\ out[k].line \in {"Fixing", "Leaving", "Retry?"} =>
                      out[k].i \in 1..Len(FailingList)
        /\ \A i \in 1..Len(FailingList) :
               /\ Printed("Fixing", i) = Runs(i)
               /\ Printed("Leaving", i) <= 1
        /\ \A k \in 1..Len(EntryLines) :
               k > 1 =>
                   LET prev == EntryLines[k - 1]
                       l == EntryLines[k]
                   IN  IF prev.line = "Fixing"
                       THEN l.i = prev.i
                       ELSE l.line = "Fixing" /\ l.i = prev.i + 1
        /\ (pc = "done" /\ ret = "Ok") =>
               /\ \A i \in 1..Len(FailingList) :
                      Printed("Fixing", i) >= 1 /\ Printed("Leaving", i) = 1
               /\ EntryLines # <<>> =>
                      /\ EntryLines[1] = [EntryLines[1] EXCEPT !.line = "Fixing", !.i = 1]
                      /\ EntryLines[Len(EntryLines)].line = "Leaving"
                      /\ EntryLines[Len(EntryLines)].i = Len(FailingList)

C16_Witness ==
    /\ pc = "done"
    /\ ret = "Ok"
    /\ Len(FailingList) = 2
    /\ Len(run_log) = 3
    /\ run_log[2] = [run_log[2] EXCEPT !.i = 1, !.verdict = "good"]
    /\ run_log[3] = [run_log[3] EXCEPT !.i = 2, !.verdict = "dirty"]
    /\ Printed("Fixing", 1) = 2
    /\ Printed("Leaving", 2) = 1

----------------------------------------------------------------------------
(* check_repo: ahead / behind *)

\* HEAD gives no upstream to compare with: it cannot be resolved, it is
\* detached, or it is a branch without a configured upstream
NoUpstreamToCompare(repo) ==
    \/ repo.head = "unborn"
    \/ repo.head = "detached"
    \/ repo.head = "branch" /\ repo.upstream = "none"

\* the queries check_repo makes before it looks for the upstream succeed
QueriesSucceed(repo) ==
    /\ repo.statuses_ok
    /\ repo.head # "unborn" => repo.resolve_ok
    /\ repo.head = "branch" => repo.has_target /\ repo.name_utf8

\* C17 as stated: whenever HEAD cannot be resolved, is detached or is a
\* branch without upstream, evaluation returns a result, not an error, with
\* zero ahead and behind, whatever the commit graph; ahead/behind are
\* non-zero only for a branch with an upstream.
C17_NoUpstreamNeverErrors ==
    rp_done =>
        /\ NoUpstreamToCompare(rp_repo) =>
               /\ rp_ret.ok
               /\ rp_ret.res.commits_ahead = 0
               /\ rp_ret.res.commits_behind = 0
        /\ (rp_ret.ok /\ (rp_ret.res.commits_ahead # 0 \/ rp_ret.res.commits_behind # 0))
               => (rp_repo.head = "branch" /\ rp_repo.upstream # "none")

\* C17: when the status query and the queries of the HEAD reference succeed
\* and HEAD cannot be resolved, is detached or is a branch without upstream,
\* evaluation returns a result with zero ahead and behind, whatever the
\* commit graph; a result has non-zero ahead/behind only for a branch with
\* an upstream.
C17_NoUpstreamMeansZeroAheadBehind ==
    rp_done =>
        /\ (NoUpstreamToCompare(rp_repo) /\ QueriesSucceed(rp_repo)) =>
               /\ rp_ret.ok
               /\ rp_ret.res.commits_ahead = 0
               /\ rp_ret.res.commits_behind = 0
        /\ (NoUpstreamToCompare(rp_repo) /\ ~QueriesSucceed(rp_repo)) => ~rp_ret.ok
        /\ (rp_ret.ok /\ (rp_ret.res.commits_ahead # 0 \/ rp_ret.res.commits_behind # 0))
               => (rp_repo.head = "branch" /\ rp_repo.upstream = "ok")

C17_Witness ==
    /\ rp_done
    /\ rp_repo.head = "detached"
    /\ rp_repo.graph = [ahead |-> MaxCommits, behind |-> 1]
    /\ rp_ret.ok
    /\ rp_ret.res.commits_ahead = 0
    /\ rp_ret.res.commits_behind = 0

----------------------------------------------------------------------------
(* Repository discoverer *)

\* the paths in a sequence
Range(q) == {q[i] : i \in 1..Len(q)}

\* the paths the traversal can reach: every directory above them was
\* examined, was no repository and was read
ReachablePaths ==
    {n \in Nodes :
        /\ fd_tree[n] # "absent"
        /\ \A a \in AncestorsOf(n) : fd_tree[a] = "dir" /\ ~fd_outer}

\* C18: a directory where discovery succeeds is recorded and nothing beneath
\* it is ever examined as a candidate; only a directory where discovery
\* fails is read and has its direct children enqueued; a candidate that is no
\* directory is neither read nor recorded.
C18_NoDescentIntoRepositories ==
    /\ \A n \in Range(fd_examined) \cup Range(stack) :
           \A a \in AncestorsOf(n) :
               /\ ~discover(fd_tree, fd_outer, a)
               /\ a \in fd_read
               /\ a \in Range(fd_examined)
    /\ Range(found_repos) =
           {n \in Range(fd_examined) :
               is_dir(fd_tree, n) /\ discover(fd_tree, fd_outer, n)}
    /\ fd_read =
           {n \in Range(fd_examined) :
               is_dir(fd_tree, n) /\ ~discover(fd_tree, fd_outer, n)}
    /\ \A i, j \in 1..Len(fd_examined) : fd_examined[i] = fd_examined[j] => i = j

C18_Witness ==
    /\ fd_pc = "done"
    /\ fd_ret.ok
    /\ fd_tree[2] = "repo"
    /\ fd_tree[4] = "dir"
    /\ fd_tree[3] = "file"
    /\ found_repos = <<2>>
    /\ Range(fd_examined) = {1, 2, 3}

\* C19: if a non-repository directory reached by the traversal cannot be
\* read, the discoverer returns an error and no list, discarding the
\* repositories already found; otherwise it returns Ok with the
\* repositories it reached.
C19_UnreadableDirectoryAborts ==
    fd_pc = "done" =>
        IF \E n \in ReachablePaths : fd_tree[n] = "unreadable" /\ ~fd_outer
        THEN fd_ret = [ok |-> FALSE, val |-> <<>>]
        ELSE /\ fd_ret.ok
             /\ fd_ret.val = found_repos
             /\ Range(fd_ret.val) =
                    {n \in ReachablePaths :
                        is_dir(fd_tree, n) /\ discover(fd_tree, fd_outer, n)}

C19_Witness ==
    /\ fd_pc = "done"
    /\ ~fd_ret.ok
    /\ fd_ret.val = <<>>
    /\ found_repos # <<>>

----------------------------------------------------------------------------
(* Configuration: custom entry names *)

\* C20: starting from a configuration without duplicate names, after any
\* sequence of add-custom and del-custom runs, whatever is typed, no two
\* custom entries share a name; an add-custom that succeeds appends exactly
\* one entry, a del-custom that succeeds removes exactly the entry with the
\* chosen name, and a run that fails leaves the persisted list as it was.
C20_CustomNamesStayUnique ==
    /\ UniqueNames(disk_custom)
    /\ UniqueNames(mem_custom)
    /\ (cc_pc = "done" /\ cc_ret = "Ok" /\ cc_op = "add_custom") =>
           /\ Len(disk_custom) = Len(disk0) + 1
           /\ SubSeq(disk_custom, 1, Len(disk0)) = disk0
           /\ disk_custom[Len(disk_custom)].name = cc_name
           /\ disk_custom[Len(disk_custom)].path = cc_path
    /\ (cc_pc = "done" /\ cc_ret = "Ok" /\ cc_op = "del_custom") =>
           /\ Len(disk_custom) = Len(disk0) - 1
           /\ disk_custom = SelectSeq(disk0, LAMBDA entry : entry.name # cc_name)
           /\ \E i \in 1..Len(disk0) : disk0[i].name = cc_name
    /\ (cc_pc = "done" /\ cc_ret = "Err") => disk_custom = disk0

C20_Witness ==
    /\ cc_pc = "done"
    /\ cc_ret = "Ok"
    /\ cc_op = "add_custom"
    /\ cc_prompts = 2
    /\ Len(disk_custom) = 3

----------------------------------------------------------------------------
(* Configuration: del and del-custom that do not go through *)

\* the names of the entries of a custom list
NamesOf(custom) == {custom[i].name : i \in 1..Len(custom)}

\* the run ended with a non-zero exit status and the persisted configuration
\* was not written
FailedWithoutWriting ==
    /\ cc_ret = "Err"
    /\ exit_status(cc_ret) # EXIT_SUCCESS
    /\ cc_saved = "none"
    /\ disk_git = git0
    /\ disk_custom = disk0

\* C21: when the user declines the confirmation prompt of del or del-custom,
\* the command ends with an error and a non-zero exit status, whatever
\* no_skip is, and the persisted configuration is not written, so it still
\* holds the entry; a del of a path that is not in the configuration and a
\* del-custom of a name that is not in it end with an error before any
\* prompt and write nothing.
C21_DeclinedOrAbsentWritesNothing ==
    (cc_pc = "done" /\ cc_op \in {"del", "del_custom"}) =>
        /\ cc_answer = "no" =>
               /\ FailedWithoutWriting
               /\ cc_op = "del" => cc_dir \in disk_git
               /\ cc_op = "del_custom" => cc_name \in NamesOf(disk_custom)
        /\ (cc_op = "del" /\ cc_dir \notin git0) =>
               FailedWithoutWriting /\ cc_answer = "none"
        /\ (cc_op = "del_custom" /\ cc_name # ""
                /\ cc_name \notin NamesOf(disk0)) =>
               FailedWithoutWriting /\ cc_answer = "none"

C21_Witness ==
    /\ cc_pc = "done"
    /\ cc_op = "del"
    /\ cc_answer = "no"
    /\ cc_no_skip
    /\ cc_dir \in disk_git
    /\ cc_ret = "Err"

----------------------------------------------------------------------------
(* Configuration: add followed by del *)

\* C27: for every DIR argument that add accepts, add DIR followed by a del
\* with the same DIR argument that the user confirms and whose save succeeds
\* returns Ok, removes the entry that add inserted and leaves the persisted
\* repository set equal to what it was before the add; an add that succeeds
\* leaves exactly one entry for the directory.
C27_AddThenDelRestoresSet ==
    /\ (cc_pc = "done" /\ cc_op = "add_del"
            /\ cc_answer \notin {"no", "err"} /\ cc_saved # "failed") =>
           /\ cc_ret = "Ok"
           /\ cc_path \notin disk_git
           /\ disk_git = git0
    /\ (cc_pc = "done" /\ cc_op = "add" /\ cc_ret = "Ok") =>
           disk_git = git0 \cup {cc_path}

----------------------------------------------------------------------------
(* check_repo: the uncommitted count *)

\* C22: in every result check_repo returns, whatever became of HEAD (not
\* resolvable, detached, a branch with or without upstream), the uncommitted
\* count is the number of status entries the repository enumerated, so a
\* repository with at least one such entry is never reported all-good.
C22_UncommittedCountIsEnumerated ==
    (rp_done /\ rp_ret.ok) =>
        /\ Len(rp_ret.res.statuses) = Len(rp_repo.statuses)
        /\ Len(rp_repo.statuses) > 0 => ~is_all_good(rp_ret.res)

----------------------------------------------------------------------------
(* Fix/retry loop: the error exit *)

\* the lines printed for the entry at position i
LinesOf(kind, i) == SelectSeq(out, LAMBDA l : l.line = kind /\ l.i = i)

\* the re-check after the last remediation attempt returned an error
RecheckFailed ==
    /\ verdict = "err"
    /\ run_log # <<>>

\* the directory of the entry the loop is on, resolved from the directory
\* the batch started in
EntryDir ==
    LET d == IF handler = "fix" THEN failing_expanded_dirs[idx + 1] ELSE dir
    IN  IF IsAbsolute(d) THEN d ELSE saved_cwd \o d

\* the custom batch stopped on expanding the path of an entry after the first
ExpansionFailed ==
    /\ pc = "done"
    /\ handler = "fix_custom"
    /\ ret = "Err"
    /\ idx > 0
    /\ Runs(idx + 1) = 0
    /\ ~shellexpand_full(failing_custom_entries[idx + 1].path).ok

\* C23: when the re-check after a remediation attempt returns an error (or,
\* in the custom batch, the path of a later entry fails to expand), the
\* handler returns that error at once whatever no_skip is: the attempt is the
\* last thing that ran, no later entry was visited, no "Leaving" line was
\* printed for the current entry, and the process is left in the directory
\* of the entry being processed instead of the one saved at batch start.
C23_ErrorExitLeavesBatchWhereItIs ==
    /\ RecheckFailed =>
           /\ pc = "done"
           /\ ret = "Err"
           /\ run_log[Len(run_log)].i = idx + 1
           /\ run_log[Len(run_log)].verdict = "err"
           /\ \A k \in 1..Len(run_log) : run_log[k].i <= idx + 1
           /\ \A k \in 1..Len(out) : out[k].i <= idx + 1
           /\ LinesOf("Leaving", idx + 1) = <<>>
           /\ out[Len(out)].line = "Fixing"
           /\ cwd = run_log[Len(run_log)].at
           /\ cwd = EntryDir
           /\ cwd # saved_cwd
    /\ ExpansionFailed =>
           /\ LinesOf("Fixing", idx + 1) = <<>>
           /\ LinesOf("Leaving", idx + 1) = <<>>
           /\ cwd = run_log[Len(run_log)].at
           /\ cwd # saved_cwd

----------------------------------------------------------------------------
(* Refresh batch: order and frame *)

\* the repository entries whose refresh command ran, and the custom ones
RefreshedRepos == SelectSeq(RefreshedEntries, LAMBDA e : e[1] = "git")

RefreshedCustom == SelectSeq(RefreshedEntries, LAMBDA e : e[1] = "custom")

\* the repository entries that resolve and open, in resolver order
OpenRepos ==
    [i \in 1..Len(HealthyDirs(hr_cfg, hr_repos)) |->
        <<"git", shellexpand_full(HealthyDirs(hr_cfg, hr_repos)[i]).val>>]

\* the custom entries in list order
ListedCustom ==
    [i \in 1..Len(hr_cfg.custom) |-> <<"custom", hr_cfg.custom[i].name>>]

IsPrefix(s, t) == Len(s) <= Len(t) /\ s = SubSeq(t, 1, Len(s))

\* the repository phase ends early: under no_skip an entry fails to expand
\* or open, or the command string of an entry that opened cannot be built
RepositoryPhaseAborts ==
    \/ hr_no_skip /\ Len(OpenRepos) < Cardinality(hr_cfg.git)
    \/ hr_cfg.refresh_cmd = NulCommand /\ OpenRepos # <<>>

\* what holds of the order and of the frame in every run: repository
\* commands come before custom ones, each in its order and at most once, the
\* output is progress lines only, the repository phase leaves the current
\* directory alone, and so does a run that returns Ok
RefreshOrderAndFrame ==
    /\ RefreshedEntries = RefreshedRepos \o RefreshedCustom
    /\ IsPrefix(RefreshedRepos, OpenRepos)
    /\ IsPrefix(RefreshedCustom, ListedCustom)
    /\ \A k \in 1..Len(hr_out) :
           hr_out[k].line \in {"Refreshing git dir", "Refreshing custom dir"}
    /\ (\A k \in 1..Len(hr_out) : hr_out[k].line = "Refreshing git dir") =>
           hr_cwd_after = hr_cwd
    /\ hr_ret = "Ok" => hr_cwd_after = hr_cwd

\* C24 as stated: every repository entry that resolves and opens has the
\* shared refresh_cmd invoked exactly once, in resolver order; the repository
\* phase never changes the current directory and evaluates no status; custom
\* refreshes run after all repository entries, in list order; when
\* handle_refresh returns Ok the current directory equals the one at entry.
C24_EveryOpenRepoRefreshedOnce ==
    hr_done =>
        /\ RefreshedRepos = OpenRepos
        /\ RefreshOrderAndFrame

\* C24: in a run whose repository phase is not cut short (by no_skip on an
\* entry that fails to expand or open, or by a refresh_cmd that cannot be
\* made a command string), every repository entry that resolves and opens has
\* refresh_cmd invoked exactly once, in resolver order, whatever the exit
\* statuses; in every run the invocations are a prefix of that list, custom
\* refreshes come after them in list order, the repository phase leaves the
\* current directory alone, and a run that returns Ok ends in the directory
\* it started in.
C24_OpenReposRefreshedOnceUnlessAborted ==
    hr_done =>
        /\ ~RepositoryPhaseAborts => RefreshedRepos = OpenRepos
        /\ RepositoryPhaseAborts => hr_ret = "Err" /\ RefreshedCustom = <<>>
        /\ RefreshOrderAndFrame

C24_Witness ==
    /\ hr_done
    /\ ~RepositoryPhaseAborts
    /\ Len(RefreshedRepos) = 2
    /\ Len(RefreshedCustom) = 2
    /\ hr_refreshed[1].exit # EXIT_SUCCESS
    /\ hr_ret = "Ok"

----------------------------------------------------------------------------
(* Repository discovery: termination and completeness *)

\* every directory of the tree can be read
AllReadable == \A n \in Nodes : fd_tree[n] # "unreadable"

\* the directories at which discovery succeeds while it fails at every
\* directory above them, down from the root
TopmostHits ==
    {n \in Nodes :
        /\ is_dir(fd_tree, n)
        /\ fd_tree[n] # "absent"
        /\ discover(fd_tree, fd_outer, n)
        /\ \A a \in AncestorsOf(n) : ~discover(fd_tree, fd_outer, a)}

\* the depth of a path under the root
Depth(n) == Cardinality(AncestorsOf(n))

\* no element occurs twice in q
NoDuplicates(q) == \A i, j \in 1..Len(q) : q[i] = q[j] => i = j

\* the traversal of a readable tree has returned what the claim says: Ok,
\* one entry for each topmost hit and nothing else, nearer the root first,
\* every path examined at most once
CompleteResult ==
    /\ fd_ret.ok
    /\ Range(fd_ret.val) = TopmostHits
    /\ NoDuplicates(fd_ret.val)
    /\ \A i, j \in 1..Len(fd_ret.val) :
           i < j => Depth(fd_ret.val[i]) <= Depth(fd_ret.val[j])
    /\ NoDuplicates(fd_examined)

\* C26: on every finite tree in which every directory can be read,
\* find_git_repos_recursive terminates, having examined each path at most
\* once, and returns in breadth-first order exactly one entry for each
\* directory at which discovery succeeds while it fails at all of its
\* ancestors; no repository is returned twice.
C26_DiscovererTerminatesComplete ==
    AllReadable => <>[](fd_pc = "done" /\ CompleteResult)

C26_Witness ==
    /\ fd_pc = "done"
    /\ AllReadable
    /\ CompleteResult
    /\ fd_ret.val = <<3, 4>>
    /\ fd_tree[6] # "absent"
    /\ fd_tree[5] = "file"

----------------------------------------------------------------------------
(* Fix/retry loop: progress *)

\* the attempts made on the entry at position i
RunsOf(i) == SelectSeq(run_log, LAMBDA r : r.i = i)

\* the user declined a retry prompt of the entry at position i
Declined(i) == \E k \in 1..Len(answers) : answers[k] = [i |-> i, ans |-> "no"]

\* the last re-evaluation of the entry at position i reported clean, or it
\* reported dirty and the user declined the retry
EndedCleanOrDeclined(i) ==
    /\ RunsOf(i) # <<>>
    /\ \/ RunsOf(i)[Len(RunsOf(i))].verdict = "good"
       \/ RunsOf(i)[Len(RunsOf(i))].verdict = "dirty" /\ Declined(i)

\* a batch is inside its loop
BatchRunning == pc \in {"enter", "loop", "prompt", "leave"}

\* an entry is Resolved exactly when it ended clean or declined, and a batch
\* all of whose entries ended so has returned Ok with every entry Resolved
ResolvedWhenCleanOrDeclined ==
    /\ \A i \in 1..Total :
           /\ Left(i) => EndedCleanOrDeclined(i)
           /\ EndedCleanOrDeclined(i) => Left(i) \/ (pc = "leave" /\ idx + 1 = i)
    /\ (pc = "done" /\ Total > 0 /\ \A i \in 1..Total : EndedCleanOrDeclined(i)) =>
           /\ ret = "Ok"
           /\ \A i \in 1..Total : Left(i)

\* the step that follows an accepted retry prompt goes back to the same
\* entry and prints nothing
AcceptedRetryStays ==
    (/\ pc = "prompt"
     /\ Len(answers') = Len(answers) + 1
     /\ answers'[Len(answers')].ans = "yes") =>
        /\ pc' = "loop"
        /\ idx' = idx
        /\ out' = out

\* C25: processing of an entry ends exactly when a re-evaluation reports
\* clean or the user declines a retry prompt; when every command, check and
\* prompt returns and the user does not accept forever, a batch that is
\* running eventually ends, and if every entry ended clean or declined it
\* ends with success and every entry Resolved; after an accepted retry of a
\* dirty entry the loop is on that same entry and has not advanced.
C25_BatchEndsWhenEntriesEnd ==
    /\ []ResolvedWhenCleanOrDeclined
    /\ (BatchRunning ~> pc = "done")
    /\ [][AcceptedRetryStays]_vars

C25_Witness ==
    /\ pc = "done"
    /\ ret = "Ok"
    /\ Total = 2
    /\ Accepted(1) = 1
    /\ Declined(1)
    /\ ~Declined(2)
    /\ EndedCleanOrDeclined(2)
    /\ Left(1)
    /\ Left(2)

====
